---- MODULE Spec2Model ----
(***************************************************************************)
(* Reconciliation and change-detection pipeline of farm-management:        *)
(* Flow 1 (run_daily_schedule), Flow 2 (run_class_monitoring) and the      *)
(* identity store they write to.                                           *)
(*                                                                         *)
(* Representation of Python values:                                        *)
(*   None        is  <<>>            (None)                                *)
(*   a value v   is  <<v>>           (Some(v)) wherever None is possible   *)
(*   a str       is  a sequence of atoms; the atom SP is one space, every  *)
(*               other atom is a run of non-space characters (the status  *)
(*               words "Not Started" / "In Progress" are single atoms: no  *)
(*               code path splits a status)                                *)
(*   a JSON number or numeric string is a record [t, v]  (Raw values)      *)
(*   a UUID      is  a natural number                                      *)
(***************************************************************************)
EXTENDS Integers, Sequences, FiniteSets, TLC

VARIABLES db, lastRun, prevRun, hist, runs

vars == <<db, lastRun, prevRun, hist, runs>>

(***************************************************************************)
(* Bounds                                                                  *)
(***************************************************************************)
MaxRuns == 2

(***************************************************************************)
(* Python values                                                           *)
(***************************************************************************)
None == <<>>

Some(x) == <<x>>

SP == " "

Str(a) == <<a>>

Lit(a) == Some(Str(a))

RawInt(n) == [t |-> "int", v |-> n]

RawNumStr(n) == [t |-> "numstr", v |-> n]

RawText == [t |-> "text", v |-> 0]

Range(s) == {s[i] : i \in DOMAIN s}

\* no exception raised
NoErr == ""

RECURSIVE lstrip(_)
lstrip(s) == IF s # <<>> /\ Head(s) = SP THEN lstrip(Tail(s)) ELSE s

RECURSIVE rstrip(_)
rstrip(s) ==
    IF s # <<>> /\ s[Len(s)] = SP THEN rstrip(SubSeq(s, 1, Len(s) - 1)) ELSE s

strip(s) == rstrip(lstrip(s))

\* s.split()[-1] of a stripped, non-empty str: the text after the last space
LastToken(s) ==
    LET spaces == {i \in DOMAIN s : s[i] = SP}
    IN  IF spaces = {} THEN s
        ELSE LET last == CHOOSE i \in spaces : \A j \in spaces : j <= i
             IN  SubSeq(s, last + 1, Len(s))

\* UNPLACED_PLACING
UNPLACED_PLACING == 100000

_parse_time(o) ==
    IF o = None THEN None
    ELSE LET t == strip(o[1]) IN IF t = <<>> THEN None ELSE Some(t)

_normalize_time_for_comparison(o) ==
    IF o = None THEN None
    ELSE LET s == strip(o[1])
         IN  IF s = <<>> THEN None
             ELSE IF SP \in Range(s)
                  THEN (IF LastToken(s) = <<>> THEN None ELSE Some(LastToken(s)))
                  ELSE Some(s)

_safe_str(o) ==
    IF o = None THEN None
    ELSE LET s == strip(o[1]) IN IF s = <<>> THEN None ELSE Some(s)

_safe_int(o) ==
    IF o = None THEN None
    ELSE IF o[1].t \in {"int", "numstr"} THEN Some(o[1].v) ELSE None

_safe_decimal(o) ==
    IF o = None THEN None
    ELSE IF o[1].t \in {"int", "numstr"} THEN Some(o[1].v) ELSE None

\* completed before scratched
EntryStatusCompletedFirst(scratch_trip, gone_in) ==
    IF gone_in THEN "completed"
    ELSE IF scratch_trip THEN "scratched"
    ELSE "active"

_entry_status(scratch_trip, gone_in) ==
    IF scratch_trip THEN "scratched"
    ELSE IF gone_in THEN "completed"
    ELSE "active"

\* trip.get(k) == 1 on a JSON number: a numeric string is not equal to 1
EqualsOne(o) == o # None /\ o[1].t = "int" /\ o[1].v = 1

RECURSIVE _trip_for_entry(_, _)
_trip_for_entry(trips, api_entry_id) ==
    IF api_entry_id = None \/ trips = <<>> THEN None
    ELSE IF Head(trips).entry_id = api_entry_id THEN Some(Head(trips))
    ELSE _trip_for_entry(Tail(trips), api_entry_id)

(***************************************************************************)
(* Identity store: relations and lookups                                   *)
(***************************************************************************)
RowById(rows, id) == CHOOSE r \in rows : r.id = id

\* a loaded relationship (entry.show, entry.horse, ...): None when the
\* foreign key is null or dangling
Related(rows, fk) ==
    IF fk = None \/ ~(\E r \in rows : r.id = fk[1]) THEN None
    ELSE Some(RowById(rows, fk[1]))

MaxId(rows) ==
    IF rows = {} THEN 0
    ELSE LET top == CHOOSE r \in rows : \A q \in rows : q.id <= r.id IN top.id

\* uuid4 of a new row
NewId(rows) == MaxId(rows) + 1

RECURSIVE Perms(_)
Perms(S) ==
    IF S = {} THEN {<<>>}
    ELSE UNION {{<<x>> \o p : p \in Perms(S \ {x})} : x \in S}

RECURSIVE SelectSeq2(_, _)
SelectSeq2(s, keep) ==
    IF s = <<>> THEN <<>>
    ELSE (IF Head(s) \in keep THEN <<Head(s)>> ELSE <<>>) \o SelectSeq2(Tail(s), keep)

(***************************************************************************)
(* Notification ledger                                                     *)
(***************************************************************************)
\* the new row written over the ledger instead of added to it
log_notification_overwriting(session, farm_id, source, notification_type, message, payload, entry_id) ==
    [session EXCEPT !.notification_log =
        <<[id |-> 1, farm_id |-> farm_id, source |-> source,
           notification_type |-> notification_type, message |-> message,
           payload |-> payload, entry_id |-> entry_id]>>]

log_notification(session, farm_id, source, notification_type, message, payload, entry_id) ==
    [session EXCEPT !.notification_log =
        Append(@, [id |-> Len(@) + 1,
                   farm_id |-> farm_id,
                   source |-> source,
                   notification_type |-> notification_type,
                   message |-> message,
                   payload |-> payload,
                   entry_id |-> entry_id])]

(***************************************************************************)
(* Flow 2: class monitoring                                                *)
(***************************************************************************)
Completed == Str("Completed")

NotStarted == Str("Not Started")

Dash == Str("-")

UnknownName == Str("Unknown")

\* the change dicts, on one record shape (unused keys are None)
Change(type, class_name) ==
    [type |-> type, class_name |-> class_name, old |-> None, new |-> None,
     horse |-> None, horse_id |-> None, placing |-> None, prize_money |-> None,
     completed |-> None, total |-> None]

NameOf(rel, default) == IF rel = None THEN default ELSE rel[1].name

\* the entries of the farm scheduled today with a class reference, the ones
\* of completed classes included
TodayEntryIds(session, farm_id, today) ==
    {e.id : e \in {x \in session.entries :
        /\ x.show_id # None
        /\ \E sh \in session.shows : sh.id = x.show_id[1] /\ sh.farm_id = farm_id
        /\ x.scheduled_date = Some(today)
        /\ x.api_class_id # None}}

\* Step 1: entries of the farm scheduled today, with a class reference,
\* whose class_status is null or not "Completed"
ActiveEntryIds(session, farm_id, today) ==
    {e.id : e \in {x \in session.entries :
        /\ x.show_id # None
        /\ \E sh \in session.shows : sh.id = x.show_id[1] /\ sh.farm_id = farm_id
        /\ x.scheduled_date = Some(today)
        /\ x.api_class_id # None
        /\ (x.class_status = None \/ x.class_status # Some(Completed))}}

ClassKey(session, id) ==
    LET e == RowById(session.entries, id) IN <<e.api_class_id[1], e.show_id[1]>>

\* grouping by (api_class_id, show_id) in first-occurrence order of the
\* query result; a group whose show has no api_show_id is skipped
RECURSIVE GroupKeys(_, _, _)
GroupKeys(session, order, seen) ==
    IF order = <<>> THEN <<>>
    ELSE LET k == ClassKey(session, Head(order))
         IN  IF k \in seen THEN GroupKeys(session, Tail(order), seen)
             ELSE <<k>> \o GroupKeys(session, Tail(order), seen \cup {k})

TasksOf(session, order, kept) ==
    [i \in DOMAIN kept |->
        [show_id |-> kept[i][2],
         api_show_id |-> RowById(session.shows, kept[i][2]).api_show_id[1],
         api_class_id |-> kept[i][1],
         entries |-> SelectSeq2(order,
                        {id \in Range(order) : ClassKey(session, id) = kept[i]})]]

KeptKeys(session, keys) ==
    SelectSeq2(keys, {k \in Range(keys) :
                        RowById(session.shows, k[2]).api_show_id # None})

get_active_classes_and_entries(session, order) ==
    TasksOf(session, order, KeptKeys(session, GroupKeys(session, order, {})))

\* trigger_flow_3_if_needed: a placeholder that only logs at debug level;
\* the call is recorded, the store is left alone
trigger_flow_3_if_needed(acc, entry) ==
    IF acc.err # NoErr THEN acc ELSE [acc EXCEPT !.flow3 = Append(@, entry.id)]

\* the change and its alert returned, the ledger row left out
EmitUnlogged(acc, ch, farm_id, entry_id) ==
    [acc EXCEPT !.changes = Append(@, ch),
                !.alerts = Append(@, [type |-> ch.type, message |-> ch.type])]

\* progress updates returned and logged without an alert
EmitWithoutProgressAlert(acc, ch, farm_id, entry_id) ==
    IF acc.err # NoErr THEN acc
    ELSE IF farm_id # None /\ acc.fault = acc.flushes + 1
    THEN [acc EXCEPT !.err = "DBAPIError"]
    ELSE [acc EXCEPT
            !.changes = Append(@, ch),
            !.alerts = IF ch.type = "PROGRESS_UPDATE" THEN @
                       ELSE Append(@, [type |-> ch.type, message |-> ch.type]),
            !.session = IF farm_id = None THEN @
                        ELSE log_notification(@, farm_id[1], "class_monitoring",
                                              ch.type, ch.type, ch, Some(entry_id)),
            !.flushes = IF farm_id = None THEN @ ELSE @ + 1]

\* acc.fault = n > 0: the database fails at the flush of the n-th
\* log_notification of the run, which raises; nothing runs after that
Emit(acc, ch, farm_id, entry_id) ==
    IF acc.err # NoErr THEN acc
    ELSE IF farm_id # None /\ acc.fault = acc.flushes + 1
    THEN [acc EXCEPT !.err = "DBAPIError"]
    ELSE
    LET logged == IF farm_id = None THEN acc.session
                  ELSE log_notification(acc.session, farm_id[1], "class_monitoring",
                                        ch.type, ch.type, ch, Some(entry_id))
    IN  [acc EXCEPT !.changes = Append(@, ch),
                    !.alerts = Append(@, [type |-> ch.type, message |-> ch.type]),
                    !.session = logged,
                    !.flushes = IF farm_id = None THEN @ ELSE @ + 1]

\* the "Not Started" baseline reported like any other status
StatusChangedUnsuppressed(api_status, first) == api_status # first.class_status

StatusChanged(api_status, first) ==
    api_status # first.class_status /\ api_status # Some(NotStarted)

\* the stored and the fetched text compared as they are
TimeChangedRaw(api_estimated, first) ==
    api_estimated # None /\ first.estimated_start # api_estimated

TimeChanged(api_estimated, first) ==
    /\ api_estimated # None
    /\ _normalize_time_for_comparison(first.estimated_start)
          # _normalize_time_for_comparison(api_estimated)

\* class-level part of _process_one_class_with_data (status, time, progress)
ClassLevelChanges(acc0, first, farm_id, class_name, crd) ==
    LET api_status == _safe_str(crd.status)
        api_estimated == _parse_time(crd.estimated_time)
        api_total_trips == _safe_int(crd.total_trips)
        api_completed_trips == _safe_int(crd.completed_trips)
        acc1 == IF StatusChanged(api_status, first)
                THEN Emit(acc0, [Change("STATUS_CHANGE", class_name) EXCEPT
                                     !.old = first.class_status, !.new = api_status],
                          farm_id, first.id)
                ELSE acc0
        acc2 == IF TimeChanged(api_estimated, first)
                THEN Emit(acc1, [Change("TIME_CHANGE", class_name) EXCEPT
                                     !.old = IF first.estimated_start \in {None, Some(<<>>)}
                                             THEN Some(Dash) ELSE first.estimated_start,
                                     !.new = api_estimated],
                          farm_id, first.id)
                ELSE acc1
        acc3 == IF api_completed_trips # None /\ api_completed_trips # first.completed_trips
                THEN Emit(acc2, [Change("PROGRESS_UPDATE", class_name) EXCEPT
                                     !.completed = api_completed_trips,
                                     !.total = IF api_total_trips = None THEN Some(0)
                                               ELSE api_total_trips],
                          farm_id, first.id)
                ELSE acc2
    IN  acc3

\* Step 5 without the assignment of entry.scratch_trip
UpdateEntryKeepingScratch(entry, crd, trip) ==
    LET gone_in == EqualsOne(trip.gone_in)
        scratch_trip == EqualsOne(trip.scratch_trip)
    IN  [entry EXCEPT
            !.class_status = _safe_str(crd.status),
            !.estimated_start = _parse_time(crd.estimated_time),
            !.actual_start = _parse_time(crd.actual_time),
            !.total_trips = _safe_int(crd.total_trips),
            !.completed_trips = _safe_int(crd.completed_trips),
            !.remaining_trips = _safe_int(crd.remaining_trips),
            !.order_of_go = _safe_int(trip.order_of_go),
            !.placing = _safe_int(trip.placing),
            !.total_prize_money = _safe_decimal(trip.total_prize_money),
            !.gone_in = gone_in,
            !.status = _entry_status(scratch_trip, gone_in)]

\* Step 5: every live field of the class and the trip overwrites the entry
UpdateEntry(entry, crd, trip) ==
    LET gone_in == EqualsOne(trip.gone_in)
        scratch_trip == EqualsOne(trip.scratch_trip)
    IN  [entry EXCEPT
            !.class_status = _safe_str(crd.status),
            !.estimated_start = _parse_time(crd.estimated_time),
            !.actual_start = _parse_time(crd.actual_time),
            !.total_trips = _safe_int(crd.total_trips),
            !.completed_trips = _safe_int(crd.completed_trips),
            !.remaining_trips = _safe_int(crd.remaining_trips),
            !.order_of_go = _safe_int(trip.order_of_go),
            !.placing = _safe_int(trip.placing),
            !.total_prize_money = _safe_decimal(trip.total_prize_money),
            !.gone_in = gone_in,
            !.scratch_trip = scratch_trip,
            !.status = _entry_status(scratch_trip, gone_in)]

\* any fetched placing that differs, the sentinel and 0 included
ResultPostedUnbounded(placing, entry) ==
    placing # None /\ entry.placing # placing

ResultPosted(placing, entry) ==
    /\ placing # None
    /\ entry.placing # placing
    /\ 0 < placing[1]
    /\ placing[1] < UNPLACED_PLACING

\* the stored gone_in not consulted
NewlyCompletedUnchecked(gone_in, entry) == gone_in

NewlyCompleted(gone_in, entry) == gone_in /\ ~entry.gone_in

\* entry-level part of _process_one_class_with_data, for one entry
ProcessEntry(acc0, entry_id, farm_id, class_name, crd, trips) ==
    LET entry == RowById(acc0.session.entries, entry_id)
        found == _trip_for_entry(trips, entry.api_entry_id)
    IN  IF found = None THEN acc0
        ELSE
        LET trip == found[1]
            gone_in == EqualsOne(trip.gone_in)
            scratch_trip == EqualsOne(trip.scratch_trip)
            placing == _safe_int(trip.placing)
            prize == trip.total_prize_money
            horse_name == NameOf(Related(acc0.session.horses, Some(entry.horse_id)), UnknownName)
            acc1 == IF ResultPosted(placing, entry)
                    THEN Emit(acc0, [Change("RESULT", class_name) EXCEPT
                                        !.horse = Some(horse_name), !.placing = placing,
                                        !.prize_money = prize],
                              farm_id, entry.id)
                    ELSE acc0
            acc2 == IF NewlyCompleted(gone_in, entry)
                    THEN trigger_flow_3_if_needed(
                            Emit(acc1, [Change("HORSE_COMPLETED", class_name) EXCEPT
                                           !.horse = Some(horse_name),
                                           !.horse_id = Some(entry.horse_id)],
                                 farm_id, entry.id),
                            entry)
                    ELSE acc1
            acc3 == IF scratch_trip /\ ~entry.scratch_trip
                    THEN Emit(acc2, [Change("SCRATCHED", class_name) EXCEPT
                                        !.horse = Some(horse_name)],
                              farm_id, entry.id)
                    ELSE acc2
        IN  IF acc3.err # NoErr THEN acc3 ELSE
            [acc3 EXCEPT
                !.session.entries = (@ \ {entry}) \cup {UpdateEntry(entry, crd, trip)},
                !.updated = @ + 1,
                !.seen = Append(@, [entry_id |-> entry.id, gone_in |-> gone_in,
                                    was |-> entry.gone_in])]

RECURSIVE ProcessEntries(_, _, _, _, _, _)
ProcessEntries(acc, entries, farm_id, class_name, crd, trips) ==
    IF entries = <<>> \/ acc.err # NoErr THEN acc
    ELSE ProcessEntries(ProcessEntry(acc, Head(entries), farm_id, class_name, crd, trips),
                        Tail(entries), farm_id, class_name, crd, trips)

EmptyCrd ==
    [status |-> None, estimated_time |-> None, actual_time |-> None,
     total_trips |-> None, completed_trips |-> None, remaining_trips |-> None]

\* class_data is None (fetch failed) or Some([class_related_data, trips])
_process_one_class_with_data(acc, entries, class_data) ==
    IF entries = <<>> \/ class_data = None THEN acc
    ELSE
    LET first == RowById(acc.session.entries, entries[1])
        show == Related(acc.session.shows, first.show_id)
        farm_id == IF show = None THEN None ELSE Some(show[1].farm_id)
        class_name == NameOf(Related(acc.session.classes, first.class_id), Str("Unknown Class"))
        crd == IF class_data[1].class_related_data = None THEN EmptyCrd
               ELSE class_data[1].class_related_data[1]
        trips == class_data[1].trips
        acc1 == ClassLevelChanges(acc, first, farm_id, class_name, crd)
    IN  ProcessEntries(acc1, entries, farm_id, class_name, crd, trips)

(***************************************************************************)
(* Farm identity (settings WELLINGTON_FARM_NAME / WELLINGTON_CUSTOMER_ID)  *)
(***************************************************************************)
ConfiguredFarm == [name |-> Str("Sunrise"), customer_id |-> Some(15)]

get_farm_by_name_and_customer(session, name, customer_id) ==
    LET hits == {f \in session.farms : f.name = name /\ f.customer_id = customer_id}
    IN  IF hits = {} THEN None ELSE Some(CHOOSE f \in hits : TRUE)

create_farm(session, name, customer_id) ==
    [session EXCEPT !.farms =
        @ \cup {[id |-> NewId(@), name |-> name, customer_id |-> customer_id]}]

\* returns the session (with the farm flushed) and the farm id
get_or_create_farm(session, farm_name, customer_id) ==
    LET existing == get_farm_by_name_and_customer(session, farm_name, customer_id)
    IN  IF existing # None
        THEN [session |-> session, farm_id |-> existing[1].id]
        ELSE [session |-> create_farm(session, farm_name, customer_id),
              farm_id |-> NewId(session.farms)]

ensure_farm_and_token(session) ==
    get_or_create_farm(session, ConfiguredFarm.name, ConfiguredFarm.customer_id)

(***************************************************************************)
(* Flow 2 orchestrator                                                     *)
(***************************************************************************)
\* the processing loop given up at the first class whose fetch failed
RECURSIVE ProcessTasksUntilFailure(_, _, _)
ProcessTasksUntilFailure(acc, tasks, live) ==
    IF tasks = <<>> \/ acc.err # NoErr \/ live[Head(tasks).api_class_id] = None THEN acc
    ELSE ProcessTasksUntilFailure(
            _process_one_class_with_data(acc, Head(tasks).entries,
                                         live[Head(tasks).api_class_id]),
            Tail(tasks), live)

RECURSIVE ProcessTasks(_, _, _)
ProcessTasks(acc, tasks, live) ==
    IF tasks = <<>> \/ acc.err # NoErr THEN acc
    ELSE ProcessTasks(
            _process_one_class_with_data(acc, Head(tasks).entries,
                                         live[Head(tasks).api_class_id]),
            Tail(tasks), live)

\* a commit after each class: what was written before the failure stays
CycleResultCommittedPerClass(acc, tasks) ==
    [ok |-> acc.err = NoErr, err |-> acc.err, committed |-> acc.session,
     attempted |-> acc.session, tasks |-> tasks,
     summary |-> [classes_checked |-> Len(tasks), entries_updated |-> acc.updated,
                  total_changes |-> Len(acc.changes),
                  total_alerts |-> Len(acc.alerts)],
     changes |-> acc.changes, alerts |-> acc.alerts, flow3 |-> acc.flow3,
     seen |-> acc.seen]

\* live[c]: None when get_class(c) failed, else Some(payload); order: the
\* row order in which the database returned the active entries
CycleResult(acc, tasks) ==
    IF acc.err # NoErr
    THEN [ok |-> FALSE, err |-> acc.err, committed |-> acc.start,
          attempted |-> acc.session, tasks |-> tasks,
          summary |-> [classes_checked |-> 0, entries_updated |-> 0,
                       total_changes |-> 0, total_alerts |-> 0],
          changes |-> <<>>, alerts |-> <<>>, flow3 |-> <<>>, seen |-> <<>>]
    ELSE
    [ok |-> TRUE, err |-> NoErr,
     committed |-> acc.session,
     attempted |-> acc.session,
     tasks |-> tasks,
     summary |-> [classes_checked |-> Len(tasks),
                  entries_updated |-> acc.updated,
                  total_changes |-> Len(acc.changes),
                  total_alerts |-> Len(acc.alerts)],
     changes |-> acc.changes,
     alerts |-> acc.alerts,
     flow3 |-> acc.flow3,
     seen |-> acc.seen]

\* Steps 2-5 over the tasks of Step 1, then the commit; an exception leaves
\* the session block without commit, which discards the transaction
MonitorTasks(start, session, tasks, live, fault) ==
    CycleResult(ProcessTasks([start |-> start, session |-> session, updated |-> 0,
                              changes |-> <<>>, alerts |-> <<>>,
                              flow3 |-> <<>>, seen |-> <<>>,
                              err |-> NoErr, fault |-> fault, flushes |-> 0],
                             tasks, live),
                tasks)

MonitorFarm(start, farm, live, order, fault) ==
    MonitorTasks(start, farm.session,
                 get_active_classes_and_entries(farm.session, order), live, fault)

\* fault: 0 when the database stays healthy, n when the n-th ledger flush fails
MonitorRun(store, live, order, fault) ==
    MonitorFarm(store, ensure_farm_and_token(store), live, order, fault)

run_class_monitoring(store, live, order) == MonitorRun(store, live, order, 0)

(***************************************************************************)
(* Unique indexes of the schema (alembic migrations).  A NULL key column   *)
(* never collides: PostgreSQL treats NULLs as distinct in a unique index.  *)
(***************************************************************************)
\* idx_entries_unique: (horse_id, show_id, api_class_id) WHERE api_class_id IS NOT NULL
idx_entries_unique(a, b) ==
    /\ a.api_class_id # None /\ b.api_class_id # None
    /\ a.show_id # None /\ b.show_id # None
    /\ a.horse_id = b.horse_id /\ a.show_id = b.show_id
    /\ a.api_class_id = b.api_class_id

\* the schema before migration 20250218150000: no index over no-class rows
idx_entries_no_class_absent(a, b) == FALSE

\* idx_entries_unique_no_class: (horse_id, show_id) WHERE api_class_id IS NULL
idx_entries_unique_no_class(a, b) ==
    /\ a.api_class_id = None /\ b.api_class_id = None
    /\ a.show_id # None /\ b.show_id # None
    /\ a.horse_id = b.horse_id /\ a.show_id = b.show_id

\* idx_horses_farm_name, idx_riders_farm_name, idx_events_farm_name
idx_farm_name(a, b) == a.farm_id = b.farm_id /\ a.name = b.name

\* idx_classes_farm_name: (farm_id, name, class_number)
idx_classes_farm_name(a, b) ==
    /\ a.farm_id = b.farm_id /\ a.name = b.name
    /\ a.class_number # None /\ a.class_number = b.class_number

\* idx_shows_farm_api: (farm_id, api_show_id) WHERE api_show_id IS NOT NULL
idx_shows_farm_api(a, b) ==
    /\ a.farm_id = b.farm_id
    /\ a.api_show_id # None /\ a.api_show_id = b.api_show_id

PrimaryKey(rows) == \A a, b \in rows : a.id = b.id => a = b

Unique(rows, Collides(_, _)) == \A a, b \in rows : a # b => ~Collides(a, b)

\* a store the database admits
SchemaValid(store) ==
    /\ PrimaryKey(store.farms) /\ PrimaryKey(store.shows) /\ PrimaryKey(store.events)
    /\ PrimaryKey(store.classes) /\ PrimaryKey(store.horses) /\ PrimaryKey(store.riders)
    /\ PrimaryKey(store.entries)
    /\ Unique(store.horses, idx_farm_name)
    /\ Unique(store.riders, idx_farm_name)
    /\ Unique(store.events, idx_farm_name)
    /\ Unique(store.classes, idx_classes_farm_name)
    /\ Unique(store.shows, idx_shows_farm_api)
    /\ Unique(store.entries, idx_entries_unique)
    /\ Unique(store.entries, idx_entries_unique_no_class)

(***************************************************************************)
(* Flow 1: parsing helpers                                                 *)
(***************************************************************************)
OrEmpty(o) == IF o = None THEN <<>> ELSE o[1]

\* dates and times are single atoms; the tables give the parse of each atom
\* the provider is modelled to send (any other text does not parse)
DateOf ==
    [a \in {"2026-02-19", "2026-02-19T00:00:00", "2026-02-20"} |->
        IF a = "2026-02-20" THEN "2026-02-20" ELSE "2026-02-19"]

TimeOf ==
    [a \in {"07:15:00", "07:15:00.000", "07:45:00", "09:30:00"} |->
        IF a = "07:15:00.000" THEN "07:15:00" ELSE a]

_parse_date(o) ==
    IF o = None \/ o = Some(<<>>) THEN None
    ELSE IF Len(o[1]) = 1 /\ o[1][1] \in DOMAIN DateOf THEN Some(DateOf[o[1][1]])
    ELSE None

_normalize_class_number(o) ==
    IF o = None THEN None
    ELSE IF strip(o[1]) = <<>> THEN None ELSE Some(strip(o[1]))

_estimated_start_utc(scheduled_date_str, schedule_starttime) ==
    IF scheduled_date_str \in {None, Some(<<>>)} \/ schedule_starttime \in {None, Some(<<>>)}
    THEN None
    ELSE LET d == _parse_date(scheduled_date_str)
             t == strip(schedule_starttime[1])
         IN  IF d = None THEN None
             ELSE IF Len(t) = 1 /\ t[1] \in DOMAIN TimeOf
                  THEN Some(<<d[1], SP, TimeOf[t[1]]>>)
                  ELSE None

(***************************************************************************)
(* Flow 1: bulk upserts of the identity store                              *)
(***************************************************************************)
upsert_show(session, farm_id, api_show_id, name) ==
    LET hits == {sh \in session.shows :
                    sh.farm_id = farm_id /\ sh.api_show_id = Some(api_show_id)}
    IN  IF hits # {}
        THEN [session |-> session, show_uuid |-> (CHOOSE sh \in hits : TRUE).id,
              inserted |-> 0, updated |-> 1]
        ELSE [session |-> [session EXCEPT !.shows = @ \cup
                    {[id |-> NewId(@), farm_id |-> farm_id,
                      api_show_id |-> Some(api_show_id), name |-> name]}],
              show_uuid |-> NewId(session.shows),
              inserted |-> 1, updated |-> 0]

\* INSERT ... ON CONFLICT (farm_id, name) DO NOTHING, over name rows
RECURSIVE InsertIfAbsent(_, _, _)
InsertIfAbsent(rows, farm_id, news) ==
    IF news = <<>> THEN rows
    ELSE LET row == Head(news) @@ [id |-> NewId(rows), farm_id |-> farm_id]
         IN  IF \E r \in rows : idx_farm_name(r, row)
             THEN InsertIfAbsent(rows, farm_id, Tail(news))
             ELSE InsertIfAbsent(rows \cup {row}, farm_id, Tail(news))

EventsWritten(session, after) ==
    [session |-> [session EXCEPT !.events = after],
     ret |-> <<Cardinality(after) - Cardinality(session.events), 0>>]

\* rows: sequence of [name, ring_number]
bulk_upsert_events(session, farm_id, rows) ==
    EventsWritten(session, InsertIfAbsent(session.events, farm_id, rows))

RECURSIVE Dedupe(_, _)
Dedupe(s, seen) ==
    IF s = <<>> THEN <<>>
    ELSE IF Head(s) \in seen THEN Dedupe(Tail(s), seen)
    ELSE <<Head(s)>> \o Dedupe(Tail(s), seen \cup {Head(s)})

NameRows(names) == [i \in DOMAIN names |-> [name |-> names[i]]]

HorsesWritten(session, after) ==
    [session |-> [session EXCEPT !.horses = after],
     ret |-> <<Cardinality(after) - Cardinality(session.horses), 0>>]

\* names: sequence of str; list(dict.fromkeys(names)) removes repeats
bulk_upsert_horses(session, farm_id, names) ==
    HorsesWritten(session,
                  InsertIfAbsent(session.horses, farm_id, NameRows(Dedupe(names, {}))))

\* returns None: the function has no return statement
bulk_upsert_riders(session, farm_id, names) ==
    [session |-> [session EXCEPT !.riders =
                     InsertIfAbsent(@, farm_id, NameRows(Dedupe(names, {})))],
     ret |-> None]

\* INSERT ... ON CONFLICT (farm_id, name, class_number) DO UPDATE: a row that
\* collides with a row written earlier by the same command is an error
RECURSIVE UpsertClassRows(_, _, _, _)
UpsertClassRows(rows, farm_id, news, touched) ==
    IF news = <<>> THEN [rows |-> rows, err |-> NoErr]
    ELSE LET row == Head(news) @@ [id |-> NewId(rows), farm_id |-> farm_id]
             hits == {r \in rows : idx_classes_farm_name(r, row)}
         IN  IF hits = {}
             THEN UpsertClassRows(rows \cup {row}, farm_id, Tail(news),
                                  touched \cup {row.id})
             ELSE IF \E r \in hits : r.id \in touched
             THEN [rows |-> rows, err |-> "CardinalityViolation"]
             ELSE UpsertClassRows(rows, farm_id, Tail(news),
                                  touched \cup {r.id : r \in hits})

ClassesWritten(session, r) ==
    [session |-> [session EXCEPT !.classes = r.rows], err |-> r.err, ret |-> None]

\* rows: sequence of [name, class_number]; returns None (no return statement)
bulk_upsert_classes(session, farm_id, rows) ==
    IF rows = <<>> THEN [session |-> session, err |-> NoErr, ret |-> None]
    ELSE ClassesWritten(session, UpsertClassRows(session.classes, farm_id, rows, {}))

\* keys: set of <<name, class_number>>; class_number == None compiles to IS NULL
get_classes_by_farm_keys(session, farm_id, keys) ==
    {c \in session.classes : c.farm_id = farm_id /\ <<c.name, c.class_number>> \in keys}

\* {(r[1], r[2]): r[0] for r in rows}
ClassIdMap(rows) ==
    [k \in {<<c.name, c.class_number>> : c \in rows} |->
        (CHOOSE c \in rows : <<c.name, c.class_number>> = k).id]

\* a, b = <return value>: unpacking None raises TypeError
Unpacks(ret) == ret # None /\ Len(ret) = 2

(***************************************************************************)
(* Flow 1: steps of run_daily_schedule                                     *)
(***************************************************************************)
RECURSIVE Concat(_)
Concat(ss) == IF ss = <<>> THEN <<>> ELSE Head(ss) \o Concat(Tail(ss))

\* where the database's row order decides (dict built from a query result,
\* next(iter(...))), tie picks the row: "first" or "last" by id
PickRow(rows, tie) ==
    IF tie = "first" THEN CHOOSE r \in rows : \A q \in rows : r.id <= q.id
    ELSE CHOOSE r \in rows : \A q \in rows : q.id <= r.id

fetch_schedule_and_upsert_show(session, farm_id, schedule) ==
    IF schedule = None
    THEN [err |-> "WellingtonAPIError", session |-> session]
    ELSE LET show_data == schedule[1].show
             api_show_id == show_data.show_id
             show_name == IF strip(OrEmpty(show_data.show_name)) = <<>>
                          THEN Str("Unknown Show")
                          ELSE strip(OrEmpty(show_data.show_name))
         IN  IF api_show_id = None \/ api_show_id = Some(0)
             THEN [err |-> "WellingtonAPIError", session |-> session]
             ELSE LET up == upsert_show(session, farm_id, api_show_id[1], show_name)
                  IN  [err |-> NoErr, session |-> up.session,
                       show_uuid |-> up.show_uuid, api_show_id |-> api_show_id[1],
                       rings_data |-> schedule[1].rings,
                       show_inserted |-> up.inserted, show_updated |-> up.updated]

RingMap(farm_id, up, tie) ==
    LET event_list == {ev \in up.session.events : ev.farm_id = farm_id}
    IN  [session |-> up.session,
         ring_number_to_event_id |->
            [n \in {ev.ring_number[1] : ev \in {x \in event_list : x.ring_number # None}} |->
                PickRow({ev \in event_list : ev.ring_number = Some(n)}, tie).id],
         events_inserted |-> up.ret[1], events_updated |-> up.ret[2]]

upsert_events_and_build_ring_map(session, farm_id, rings_data, tie) ==
    IF rings_data = <<>>
    THEN RingMap(farm_id, [session |-> session, ret |-> <<0, 0>>], tie)
    ELSE RingMap(farm_id,
                 bulk_upsert_events(session, farm_id,
                    [i \in DOMAIN rings_data |->
                        [name |-> OrEmpty(rings_data[i].ring_name),
                         ring_number |-> rings_data[i].ring_number]]),
                 tie)

TotalTripsVal(raw) ==
    IF raw = None THEN 0
    ELSE IF raw[1].t \in {"int", "numstr"} THEN raw[1].v ELSE 0

\* classes deduplicated by class_id, without degenerate ones
RECURSIVE ClassKeys(_, _)
ClassKeys(summaries, seen_class_ids) ==
    IF summaries = <<>> THEN <<>>
    ELSE LET c == Head(summaries)
             cname == strip(OrEmpty(c.class_name))
         IN  IF c.class_id = None \/ c.class_id[1] \in seen_class_ids
                \/ cname = <<>> \/ TotalTripsVal(c.total_trips) <= 0
             THEN ClassKeys(Tail(summaries), seen_class_ids)
             ELSE <<[cid |-> c.class_id[1], name |-> cname,
                     class_number |-> IF c.class_number = None THEN None
                                      ELSE Some(strip(c.class_number[1]))]>>
                  \o ClassKeys(Tail(summaries), seen_class_ids \cup {c.class_id[1]})

ClassMap(class_keys, up, name_cnum_to_id) ==
    IF class_keys # <<>> /\ up.err # NoErr
    THEN [err |-> up.err, session |-> up.session]
    ELSE IF class_keys # <<>> /\ ~Unpacks(up.ret)
    THEN [err |-> "TypeError", session |-> up.session]
    ELSE [err |-> NoErr, session |-> up.session,
          api_class_id_to_class_id |->
             [cid \in {k.cid : k \in Range(class_keys)} |->
                LET k == CHOOSE x \in Range(class_keys) : x.cid = cid
                IN  IF <<k.name, k.class_number>> \in DOMAIN name_cnum_to_id
                    THEN Some(name_cnum_to_id[<<k.name, k.class_number>>])
                    ELSE None],
          classes_from_api |-> Len(class_keys),
          classes_inserted |-> IF class_keys = <<>> THEN 0 ELSE up.ret[1],
          classes_updated |-> IF class_keys = <<>> THEN 0 ELSE up.ret[2]]

ClassesUpserted(farm_id, class_keys, up) ==
    ClassMap(class_keys, up,
             ClassIdMap(get_classes_by_farm_keys(up.session, farm_id,
                            {<<k.name, k.class_number>> : k \in Range(class_keys)})))

UpsertClassKeys(session, farm_id, class_keys) ==
    ClassesUpserted(farm_id, class_keys,
        bulk_upsert_classes(session, farm_id,
            [i \in DOMAIN class_keys |->
                [name |-> class_keys[i].name,
                 class_number |-> class_keys[i].class_number]]))

upsert_classes_and_build_class_map(session, farm_id, rings_data) ==
    UpsertClassKeys(session, farm_id,
        ClassKeys(Concat([i \in DOMAIN rings_data |-> rings_data[i].classes]), {}))

\* details[id] is None when get_entry_detail(id) failed: the failure is logged
\* and the detail left out
RECURSIVE fetch_entry_details(_, _)
fetch_entry_details(entries_list, details) ==
    IF entries_list = <<>> THEN <<>>
    ELSE LET e == Head(entries_list)
         IN  (IF e.entry_id = None \/ details[e.entry_id[1]] = None THEN <<>>
              ELSE <<details[e.entry_id[1]][1]>>)
             \o fetch_entry_details(Tail(entries_list), details)

DetailClassKeys(entry_details) ==
    {<<strip(OrEmpty(cl.name)), _normalize_class_number(cl.class_number)>> :
        cl \in {c \in UNION {Range(ed.classes) : ed \in Range(entry_details)} :
                    strip(OrEmpty(c.name)) # <<>>}}

\* sequence of the members of a set of class keys, in some order
RECURSIVE SetToSeq(_)
SetToSeq(S) ==
    IF S = {} THEN <<>>
    ELSE LET x == CHOOSE y \in S : TRUE IN <<x>> \o SetToSeq(S \ {x})

MissingCreated(farm_id, keys, up) ==
    [err |-> up.err, session |-> up.session,
     map |-> ClassIdMap(get_classes_by_farm_keys(up.session, farm_id, keys))]

CreateMissing(session, farm_id, keys, missing) ==
    MissingCreated(farm_id, keys,
        bulk_upsert_classes(session, farm_id,
            [i \in DOMAIN missing |->
                [name |-> missing[i][1], class_number |-> missing[i][2]]]))

ClassMapFromKeys(session, farm_id, keys, existing) ==
    IF keys = {} THEN [err |-> NoErr, session |-> session, map |-> <<>>]
    ELSE IF keys \subseteq DOMAIN existing
    THEN [err |-> NoErr, session |-> session, map |-> existing]
    ELSE CreateMissing(session, farm_id, keys,
                       SetToSeq({k \in keys : k \notin DOMAIN existing}))

get_or_create_class_map_from_entry_details(session, farm_id, entry_details) ==
    ClassMapFromKeys(session, farm_id, DetailClassKeys(entry_details),
        ClassIdMap(get_classes_by_farm_keys(session, farm_id,
                                            DetailClassKeys(entry_details))))

\* column defaults of a new Entry row
EntryDefaults ==
    [id |-> 0, horse_id |-> 0, rider_id |-> None, show_id |-> None,
     event_id |-> None, class_id |-> None, api_entry_id |-> None,
     api_class_id |-> None, scheduled_date |-> None, estimated_start |-> None,
     actual_start |-> None, status |-> "active", class_status |-> None,
     gone_in |-> FALSE, scratch_trip |-> FALSE, placing |-> None,
     total_prize_money |-> None, total_trips |-> None, completed_trips |-> None,
     remaining_trips |-> None, order_of_go |-> None]

\* rows built for the classes of one entry detail
RECURSIVE ClassRows(_, _, _, _, _, _)
ClassRows(classes_list, ed, show_uuid, ring_number_to_event_id, class_map, default_rider) ==
    IF classes_list = <<>> THEN <<>>
    ELSE LET cl == Head(classes_list)
             rn == strip(OrEmpty(cl.rider_name))
             class_name == strip(OrEmpty(cl.name))
             class_number == _normalize_class_number(cl.class_number)
             key == <<class_name, class_number>>
             rest == ClassRows(Tail(classes_list), ed, show_uuid,
                               ring_number_to_event_id, class_map, default_rider)
         IN  IF class_name = <<>> \/ key \notin DOMAIN class_map THEN rest
             ELSE <<[row |-> [EntryDefaults EXCEPT
                        !.show_id = Some(show_uuid),
                        !.event_id = IF cl.ring # None
                                        /\ cl.ring[1] \in DOMAIN ring_number_to_event_id
                                     THEN Some(ring_number_to_event_id[cl.ring[1]])
                                     ELSE None,
                        !.class_id = Some(class_map[key]),
                        !.api_entry_id = ed.entry.entry_id,
                        !.api_class_id = cl.class_id,
                        !.scheduled_date = _parse_date(cl.scheduled_date),
                        !.estimated_start =
                            _estimated_start_utc(cl.scheduled_date, cl.schedule_starttime),
                        !.status = "active"],
                     horse_name |-> strip(OrEmpty(ed.entry.horse)),
                     rider_name |-> IF rn # <<>> THEN rn ELSE default_rider]>>
                  \o rest

RECURSIVE build_entry_rows(_, _, _, _, _)
build_entry_rows(entry_details, show_uuid, ring_number_to_event_id, class_map, sync_date) ==
    IF entry_details = <<>> THEN <<>>
    ELSE LET ed == Head(entry_details)
             horse_name == strip(OrEmpty(ed.entry.horse))
             default_rider == IF ed.entry_riders = <<>> THEN <<>>
                              ELSE OrEmpty(ed.entry_riders[1].rider_name)
             inactive == [row |-> [EntryDefaults EXCEPT
                             !.show_id = Some(show_uuid),
                             !.api_entry_id = ed.entry.entry_id,
                             !.scheduled_date = Some(sync_date),
                             !.status = "inactive"],
                          horse_name |-> horse_name,
                          rider_name |-> default_rider]
         IN  ClassRows(ed.classes, ed, show_uuid, ring_number_to_event_id,
                       class_map, default_rider)
             \o (IF ed.classes = <<>> /\ horse_name # <<>> THEN <<inactive>> ELSE <<>>)
             \o build_entry_rows(Tail(entry_details), show_uuid,
                                 ring_number_to_event_id, class_map, sync_date)

CollectHorseNames(entry_details) ==
    {strip(OrEmpty(ed.entry.horse)) : ed \in Range(entry_details)} \ {<<>>}

CollectRiderNames(entry_details) ==
    ({strip(OrEmpty(er.rider_name)) :
        er \in UNION {Range(ed.entry_riders) : ed \in Range(entry_details)}}
     \cup {strip(OrEmpty(cl.rider_name)) :
        cl \in UNION {Range(ed.classes) : ed \in Range(entry_details)}}) \ {<<>>}

NameIdMap(rows, farm_id, names) ==
    [n \in {r.name : r \in {x \in rows : x.farm_id = farm_id /\ x.name \in names}} |->
        (CHOOSE r \in rows : r.farm_id = farm_id /\ r.name = n).id]

NameMaps(farm_id, horse_names, rider_names, h, r) ==
    IF ~Unpacks(r.ret)
    THEN [err |-> "TypeError", session |-> r.session]
    ELSE [err |-> NoErr, session |-> r.session,
          horse_name_to_id |-> NameIdMap(r.session.horses, farm_id, horse_names),
          rider_name_to_id |-> NameIdMap(r.session.riders, farm_id, rider_names),
          horses_inserted |-> h.ret[1], horses_updated |-> h.ret[2],
          riders_inserted |-> r.ret[1], riders_updated |-> r.ret[2]]

HorsesUpserted(farm_id, horse_names, rider_names, h) ==
    NameMaps(farm_id, horse_names, rider_names, h,
             bulk_upsert_riders(h.session, farm_id, SetToSeq(rider_names)))

upsert_horses_and_riders_and_get_maps(session, farm_id, horse_names, rider_names) ==
    HorsesUpserted(farm_id, horse_names, rider_names,
        IF horse_names = {} THEN [session |-> session, ret |-> <<0, 0>>]
        ELSE bulk_upsert_horses(session, farm_id, SetToSeq(horse_names)))

\* every column taken from the row of the sync
RefreshWithClassAllColumns(old, new) == [new EXCEPT !.id = old.id]

RefreshWithClass(old, new) ==
    [old EXCEPT !.rider_id = new.rider_id, !.estimated_start = new.estimated_start]

RefreshNoClass(old, new) ==
    [old EXCEPT !.rider_id = new.rider_id, !.status = new.status,
                !.scheduled_date = new.scheduled_date]

\* INSERT ... ON CONFLICT ... DO UPDATE over entry rows, for one of the two
\* partial unique indexes; Refresh(old, new) is the SET clause
EntryCollides(index, a, b) ==
    IF index = "idx_entries_unique" THEN idx_entries_unique(a, b)
    ELSE idx_entries_unique_no_class(a, b)

EntryRefresh(index, old, new) ==
    IF index = "idx_entries_unique" THEN RefreshWithClass(old, new)
    ELSE RefreshNoClass(old, new)

RECURSIVE UpsertEntryRows(_, _, _, _)
UpsertEntryRows(rows, news, touched, index) ==
    IF news = <<>> THEN [rows |-> rows, err |-> NoErr]
    ELSE LET row == [Head(news) EXCEPT !.id = NewId(rows)]
             hits == {r \in rows : EntryCollides(index, r, row)}
         IN  IF hits = {}
             THEN UpsertEntryRows(rows \cup {row}, Tail(news), touched \cup {row.id},
                                  index)
             ELSE IF \E r \in hits : r.id \in touched
             THEN [rows |-> rows, err |-> "CardinalityViolation"]
             ELSE UpsertEntryRows((rows \ hits) \cup {EntryRefresh(index, r, row) : r \in hits},
                                  Tail(news), touched \cup {r.id : r \in hits},
                                  index)

HasClass(r) == r.api_class_id # None

HasNoClass(r) == r.api_class_id = None

ExistingCount(rows, news, index) ==
    Cardinality({e \in rows : \E r \in Range(news) : EntryCollides(index, e, r)})

EntriesWritten(session, with_class, no_class, up1, up2) ==
    IF up1.err # NoErr THEN [err |-> up1.err, session |-> session, ret |-> None]
    ELSE IF up2.err # NoErr THEN [err |-> up2.err, session |-> session, ret |-> None]
    ELSE LET existing_count ==
                ExistingCount(session.entries, with_class, "idx_entries_unique")
             existing_no_count ==
                ExistingCount(up1.rows, no_class, "idx_entries_unique_no_class")
         IN  [err |-> NoErr,
              session |-> [session EXCEPT !.entries = up2.rows],
              ret |-> <<(Len(with_class) - existing_count)
                          + (Len(no_class) - existing_no_count),
                        existing_count + existing_no_count>>]

WithClassWritten(session, with_class, no_class, up1) ==
    EntriesWritten(session, with_class, no_class, up1,
        IF up1.err # NoErr THEN up1
        ELSE UpsertEntryRows(up1.rows, no_class, {}, "idx_entries_unique_no_class"))

bulk_upsert_entries(session, rows) ==
    IF rows = <<>> THEN [err |-> NoErr, session |-> session, ret |-> <<0, 0>>]
    ELSE WithClassWritten(session, SelectSeq(rows, HasClass), SelectSeq(rows, HasNoClass),
            UpsertEntryRows(session.entries, SelectSeq(rows, HasClass), {},
                            "idx_entries_unique"))

\* replaces the name placeholders by ids; a row whose horse does not resolve
\* takes the id of the first horse of the map, if there is one
ResolveRow(built, horse_name_to_id, rider_name_to_id, fallback) ==
    [built.row EXCEPT
        !.horse_id = IF built.horse_name \in DOMAIN horse_name_to_id
                     THEN Some(horse_name_to_id[built.horse_name])
                     ELSE fallback,
        !.rider_id = IF built.rider_name # <<>>
                        /\ built.rider_name \in DOMAIN rider_name_to_id
                     THEN Some(rider_name_to_id[built.rider_name])
                     ELSE None]

HasHorse(r) == r.horse_id # None

StoredRow(r) == [r EXCEPT !.horse_id = r.horse_id[1]]

RowsUpserted(valid_rows, up) ==
    IF up.err # NoErr THEN [err |-> up.err, session |-> up.session]
    ELSE [err |-> NoErr, session |-> up.session, total |-> Len(valid_rows),
          entries_inserted |-> up.ret[1], entries_updated |-> up.ret[2]]

UpsertValidRows(session, valid_rows) ==
    IF valid_rows = <<>>
    THEN [err |-> NoErr, session |-> session, total |-> 0,
          entries_inserted |-> 0, entries_updated |-> 0]
    ELSE RowsUpserted(valid_rows, bulk_upsert_entries(session, valid_rows))

ResolveRows(session, entry_rows, horse_name_to_id, rider_name_to_id, fallback) ==
    UpsertValidRows(session,
        LET valid == SelectSeq(
                        [i \in DOMAIN entry_rows |->
                            ResolveRow(entry_rows[i], horse_name_to_id,
                                       rider_name_to_id, fallback)],
                        HasHorse)
        IN  [i \in DOMAIN valid |-> StoredRow(valid[i])])

\* step 8 without the fallback: a row whose horse does not resolve is dropped
ResolveWithoutFallback(session, entry_rows, horse_name_to_id, rider_name_to_id, tie) ==
    ResolveRows(session, entry_rows, horse_name_to_id, rider_name_to_id, None)

resolve_entry_rows_and_upsert(session, entry_rows, horse_name_to_id, rider_name_to_id, tie) ==
    ResolveRows(session, entry_rows, horse_name_to_id, rider_name_to_id,
        LET ids == {horse_name_to_id[n] : n \in DOMAIN horse_name_to_id}
        IN  IF ids = {} THEN None
            ELSE Some(PickRow({[id |-> i] : i \in ids}, tie).id))

_entity_counts(from_api, inserted, updated) ==
    [from_api |-> from_api, inserted |-> inserted, updated |-> updated]

NoCounts ==
    [show |-> _entity_counts(0, 0, 0), rings |-> _entity_counts(0, 0, 0),
     classes |-> _entity_counts(0, 0, 0), horses |-> _entity_counts(0, 0, 0),
     riders |-> _entity_counts(0, 0, 0), entries |-> _entity_counts(0, 0, 0),
     unique_horse_count |-> 0, unique_class_count |-> 0,
     total_synced_entries |-> 0]

\* the writes of the failed run left in the store
FailedWithoutRollback(store, err, attempted) ==
    [ok |-> FALSE, err |-> err, committed |-> attempted, attempted |-> attempted,
     summary |-> NoCounts]

\* the except branch of run_daily_schedule: rollback and re-raise; attempted is
\* the state of the transaction when the exception was raised
Failed(store, err, attempted) ==
    [ok |-> FALSE, err |-> err, committed |-> store, attempted |-> attempted,
     summary |-> NoCounts]

\* ext: what the Wellington API answers during the run
\*   ext.schedule      None (request failed) or Some([show, rings])
\*   ext.entries_ok    FALSE when the /entries/my request failed
\*   ext.entries_list  the "entries" of /entries/my
\*   ext.details       entry_id -> None (request failed) or Some(detail)
\* p holds the values run_daily_schedule has bound so far
Synced(p, en) ==
    IF en.err # NoErr THEN Failed(p.store, en.err, en.session) ELSE
    [ok |-> TRUE, err |-> NoErr, committed |-> en.session, attempted |-> en.session,
     summary |->
        [show |-> _entity_counts(1, p.sh.show_inserted, p.sh.show_updated),
         rings |-> _entity_counts(Len(p.sh.rings_data), p.ev.events_inserted,
                                  p.ev.events_updated),
         classes |-> _entity_counts(p.cl.classes_from_api, p.cl.classes_inserted,
                                    p.cl.classes_updated),
         horses |-> _entity_counts(Cardinality(p.horse_names), p.hr.horses_inserted,
                                   p.hr.horses_updated),
         riders |-> _entity_counts(Cardinality(p.rider_names), p.hr.riders_inserted,
                                   p.hr.riders_updated),
         entries |-> _entity_counts(Len(p.ext.entries_list), en.entries_inserted,
                                    en.entries_updated),
         unique_horse_count |-> Cardinality(p.horse_names),
         unique_class_count |-> Cardinality(DOMAIN p.cm.map),
         total_synced_entries |-> en.total]]

SyncEntries(p, hr) ==
    IF hr.err # NoErr THEN Failed(p.store, hr.err, hr.session) ELSE
    Synced(p @@ [hr |-> hr],
           resolve_entry_rows_and_upsert(hr.session, p.entry_rows, hr.horse_name_to_id,
                                         hr.rider_name_to_id, p.tie))

SyncHorsesAndRiders(p, entry_rows, horse_names, rider_names) ==
    SyncEntries(p @@ [entry_rows |-> entry_rows, horse_names |-> horse_names,
                      rider_names |-> rider_names],
                upsert_horses_and_riders_and_get_maps(p.cm.session, p.farm_id,
                                                      horse_names, rider_names))

SyncEntryRows(p, cm) ==
    IF cm.err # NoErr THEN Failed(p.store, cm.err, cm.session) ELSE
    SyncHorsesAndRiders(p @@ [cm |-> cm],
        build_entry_rows(p.entry_details, p.sh.show_uuid,
                         p.ev.ring_number_to_event_id, cm.map, p.sync_date),
        CollectHorseNames(p.entry_details),
        CollectRiderNames(p.entry_details))

SyncEntryDetails(p, entry_details) ==
    SyncEntryRows(p @@ [entry_details |-> entry_details],
        get_or_create_class_map_from_entry_details(p.cl.session, p.farm_id,
                                                   entry_details))

SyncClasses(p, cl) ==
    IF cl.err # NoErr THEN Failed(p.store, cl.err, cl.session) ELSE
    IF ~p.ext.entries_ok THEN Failed(p.store, "WellingtonAPIError", cl.session) ELSE
    SyncEntryDetails(p @@ [cl |-> cl],
                     fetch_entry_details(p.ext.entries_list, p.ext.details))

SyncEvents(p, ev) ==
    SyncClasses(p @@ [ev |-> ev],
                upsert_classes_and_build_class_map(ev.session, p.farm_id,
                                                   p.sh.rings_data))

SyncShow(p, sh) ==
    IF sh.err # NoErr THEN Failed(p.store, sh.err, sh.session) ELSE
    SyncEvents(p @@ [sh |-> sh],
               upsert_events_and_build_ring_map(sh.session, p.farm_id,
                                                sh.rings_data, p.tie))

SyncFarm(p, farm) ==
    SyncShow(p @@ [farm_id |-> farm.farm_id],
             fetch_schedule_and_upsert_show(farm.session, farm.farm_id,
                                            p.ext.schedule))

run_daily_schedule(store, ext, sync_date, tie) ==
    SyncFarm([store |-> store, ext |-> ext, sync_date |-> sync_date, tie |-> tie],
             ensure_farm_and_token(store))

(***************************************************************************)
(* The database before the modelled runs.  The store is persistent: the    *)
(* runs start from rows written earlier, which the schema has admitted.    *)
(***************************************************************************)
Today == "2026-02-19"

EmptyStore ==
    [farms |-> {}, shows |-> {}, events |-> {}, classes |-> {}, horses |-> {},
     riders |-> {}, entries |-> {}, notification_log |-> <<>>]

FarmRow == [id |-> 1, name |-> ConfiguredFarm.name,
            customer_id |-> ConfiguredFarm.customer_id]

ShowRow == [id |-> 1, farm_id |-> 1, api_show_id |-> Some(7), name |-> Str("WEF")]

ClassRow == [id |-> 1, farm_id |-> 1, name |-> Str("Jumper"),
             class_number |-> Some(Str("10"))]

HorseRows == {[id |-> 1, farm_id |-> 1, name |-> Str("Apollo")],
              [id |-> 2, farm_id |-> 1, name |-> Str("Comet")]}

\* an Entry row of show 1 as Flow 1 writes it
EntryRow(id, horse_id, api_class_id, api_entry_id) ==
    [EntryDefaults EXCEPT
        !.id = id, !.horse_id = horse_id, !.show_id = Some(1),
        !.class_id = IF api_class_id = None THEN None ELSE Some(1),
        !.api_entry_id = api_entry_id, !.api_class_id = api_class_id,
        !.scheduled_date = Some(Today),
        !.status = IF api_class_id = None THEN "inactive" ELSE "active"]

SeededStore(entries) ==
    [EmptyStore EXCEPT !.farms = {FarmRow}, !.shows = {ShowRow},
                       !.classes = {ClassRow}, !.horses = HorseRows,
                       !.entries = entries]

\* candidate Entry rows of horse 1: two in class 101, two without a class
EntryUniverse ==
    {EntryRow(1, 1, Some(101), Some(11)), EntryRow(2, 1, Some(101), Some(12)),
     EntryRow(3, 1, None, Some(11)), EntryRow(4, 1, None, Some(12))}

InitStores ==
    {EmptyStore} \cup
    {st \in {SeededStore(es) : es \in SUBSET EntryUniverse} : SchemaValid(st)}

NoRun == [flow |-> "none"]

NoHist == [seenTrue |-> FALSE, regressed |-> FALSE]

HistOf(store) ==
    [id \in {e.id : e \in store.entries} |->
        [NoHist EXCEPT !.seenTrue = RowById(store.entries, id).gone_in]]

Init ==
    /\ db \in InitStores
    /\ lastRun = NoRun
    /\ prevRun = NoRun
    /\ hist = HistOf(db)
    /\ runs = 0

(***************************************************************************)
(* What the Wellington API answers                                         *)
(***************************************************************************)
Schedule(show_id, rings) ==
    Some([show |-> [show_id |-> show_id, show_name |-> Lit("WEF")], rings |-> rings])

Ring(classes) ==
    [ring_name |-> Lit("Ring 1"), ring_number |-> Some(1), classes |-> classes]

ClassSummary(class_id, name, class_number) ==
    [class_id |-> Some(class_id), class_name |-> Some(name),
     class_number |-> class_number, total_trips |-> Some(RawInt(5))]

EntryClass(class_id, name, class_number) ==
    [class_id |-> Some(class_id), name |-> Some(name), class_number |-> class_number,
     ring |-> Some(1), scheduled_date |-> Lit("2026-02-19T00:00:00"),
     schedule_starttime |-> Lit("07:15:00"), rider_name |-> None]

EntryDetail(entry_id, horse, classes) ==
    Some([entry |-> [entry_id |-> Some(entry_id), horse |-> Some(horse)],
          entry_riders |-> <<[rider_name |-> Lit("Ann")]>>,
          classes |-> classes])

External(schedule, entry_ids, details) ==
    [schedule |-> schedule, entries_ok |-> TRUE,
     entries_list |-> [i \in DOMAIN entry_ids |-> [entry_id |-> Some(entry_ids[i])]],
     details |-> details]

NoDetails == [id \in {11, 12} |-> None]

\* one show with one ring and one class, entered by two horses of the caller
TwoHorsesOneClass ==
    External(Schedule(Some(7),
               <<Ring(<<ClassSummary(101, Str("Jumper"), Lit("10"))>>)>>),
             <<11, 12>>,
             [NoDetails EXCEPT
                ![11] = EntryDetail(11, Str("Apollo"),
                           <<EntryClass(101, Str("Jumper"), Lit("10"))>>),
                ![12] = EntryDetail(12, Str("Comet"),
                           <<EntryClass(101, Str("Jumper"), Lit("10"))>>)])

\* one class reported under two external ids with the same name and number,
\* entered by one horse under both ids
TwinClasses ==
    External(Schedule(Some(7),
               <<Ring(<<ClassSummary(101, Str("Jumper"), Lit("10")),
                        ClassSummary(102, Str("Jumper"), Lit("10"))>>)>>),
             <<11>>,
             [NoDetails EXCEPT
                ![11] = EntryDetail(11, Str("Apollo"),
                           <<EntryClass(101, Str("Jumper"), Lit("10")),
                             EntryClass(102, Str("Jumper"), Lit("10"))>>)])

\* the answers a morning sync meets: the schedule request failing, a show
\* without id, an empty day, the show under a new name, a ring with a
\* numbered class, two classes of one
\* name without class number, the entries request failing, one entry detail
\* failing beside one that succeeds, entries whose classes the schedule
\* lacks, and one class entered by two horses
ExternalStates ==
    {External(None, <<>>, NoDetails),
     External(Schedule(Some(0), <<>>), <<>>, NoDetails),
     External(Schedule(Some(7), <<>>), <<>>, NoDetails),
     External(Some([show |-> [show_id |-> Some(7), show_name |-> Lit("WEF Week 2")],
                    rings |-> <<>>]),
              <<>>, NoDetails),
     External(Schedule(Some(7),
                <<Ring(<<ClassSummary(101, Str("Jumper"), Lit("10"))>>)>>),
              <<11>>,
              [NoDetails EXCEPT
                 ![11] = EntryDetail(11, Str("Apollo"),
                            <<EntryClass(101, Str("Jumper"), Lit("10"))>>)]),
     External(Schedule(Some(7),
                <<Ring(<<ClassSummary(201, Str("Hunter"), None),
                         ClassSummary(202, Str("Hunter"), None)>>)>>),
              <<>>, NoDetails),
     [External(Schedule(Some(7), <<Ring(<<>>)>>), <<>>, NoDetails)
        EXCEPT !.entries_ok = FALSE],
     External(Schedule(Some(7), <<Ring(<<>>)>>),
              <<11, 12>>,
              [NoDetails EXCEPT ![12] = EntryDetail(12, Str("Comet"), <<>>)]),
     External(Schedule(Some(7), <<Ring(<<>>)>>),
              <<11, 12>>,
              [NoDetails EXCEPT
                 ![11] = EntryDetail(11, <<"Apollo", SP>>,
                            <<EntryClass(101, Str("Jumper"), Some(<<SP, "10">>))>>),
                 ![12] = EntryDetail(12, Str("Comet"), <<>>)]),
     TwoHorsesOneClass,
     TwinClasses}

\* the provider sends gone_in, scratch_trip, order_of_go, placing and prize as
\* JSON numbers or null; the alert texts built from them are not modelled
Trip(entry_id, gone_in, placing, prize) ==
    [entry_id |-> Some(entry_id), gone_in |-> Some(RawInt(gone_in)),
     scratch_trip |-> Some(RawInt(0)), order_of_go |-> Some(RawInt(1)),
     placing |-> placing, total_prize_money |-> prize]

Crd(status, estimated_time, completed_trips) ==
    [status |-> status, estimated_time |-> estimated_time, actual_time |-> None,
     total_trips |-> Some(RawInt(5)), completed_trips |-> completed_trips,
     remaining_trips |-> None]

\* live[api_class_id]: None when the class request failed
Live(class_related_data, trips) ==
    [c \in {101} |-> Some([class_related_data |-> Some(class_related_data),
                           trips |-> trips])]

FetchFailed == [c \in {101} |-> None]

Underway == Str("Underway")

BaseCrd == Crd(Some(Underway), Lit("07:15:00"), Some(RawInt(2)))

NotGone(entry_id) == Trip(entry_id, 0, None, None)

Placed(entry_id, placing) ==
    Trip(entry_id, 1, Some(RawInt(placing)), Some(RawInt(500)))

\* live states of the coarse specification
LiveStates ==
    {FetchFailed,
     Live(BaseCrd, <<NotGone(11)>>),
     Live(BaseCrd, <<Placed(12, 3)>>),
     Live(Crd(Some(Completed), Lit("07:45:00"), Some(RawInt(5))), <<Placed(11, 3)>>)}

(***************************************************************************)
(* The runs                                                                *)
(***************************************************************************)
\* what the next run remembers of this one
Brief(run) ==
    IF run.flow = "flow1" THEN [flow |-> "flow1", ext |-> run.ext]
    ELSE IF run.flow = "flow2" THEN [flow |-> "flow2", live |-> run.live]
    ELSE NoRun

\* per entry: whether the provider has reported gone_in = 1 for it, and
\* whether it has reported gone_in # 1 after that
Observe(h, gone_in) ==
    IF gone_in THEN [h EXCEPT !.seenTrue = TRUE]
    ELSE IF h.seenTrue THEN [h EXCEPT !.regressed = TRUE]
    ELSE h

HistAfter(h, store, seen) ==
    [id \in {e.id : e \in store.entries} |->
        LET was == IF id \in DOMAIN h THEN h[id]
                   ELSE [NoHist EXCEPT !.seenTrue = RowById(store.entries, id).gone_in]
            obs == {i \in DOMAIN seen : seen[i].entry_id = id}
        IN  IF obs = {} THEN was
            ELSE Observe(was, seen[CHOOSE i \in obs : TRUE].gone_in)]

\* POST /schedule/daily: one run of Flow 1
MorningSync ==
    /\ runs < MaxRuns
    /\ \E ext \in ExternalStates, tie \in {"first", "last"} :
          \E r \in {run_daily_schedule(db, ext, Today, tie)} :
              /\ db' = r.committed
              /\ lastRun' = [flow |-> "flow1", ok |-> r.ok, err |-> r.err,
                             ext |-> ext, summary |-> r.summary,
                             before |-> db, attempted |-> r.attempted]
              /\ hist' = HistAfter(hist, r.committed, <<>>)
    /\ prevRun' = Brief(lastRun)
    /\ runs' = runs + 1

\* POST /schedule/class-monitoring: one cycle of Flow 2 against one of lives;
\* order is the row order of the active-entries query, fault the behaviour
\* of the database during the cycle
MonitoringCycle(lives, faults) ==
    /\ runs < MaxRuns
    /\ \E live \in lives, farm \in {ensure_farm_and_token(db)}, fault \in faults :
          \E order \in Perms(ActiveEntryIds(farm.session, farm.farm_id, Today)) :
             \E r \in {MonitorRun(db, live, order, fault)} :
                /\ db' = r.committed
                /\ lastRun' =
                     [flow |-> "flow2", ok |-> r.ok, err |-> r.err,
                      live |-> live, before |-> db, attempted |-> r.attempted,
                      tasks |-> r.tasks, summary |-> r.summary,
                      changes |-> r.changes, alerts |-> r.alerts,
                      flow3 |-> r.flow3, seen |-> r.seen, fault |-> fault,
                      logged |-> SubSeq(r.committed.notification_log,
                                        Len(db.notification_log) + 1,
                                        Len(r.committed.notification_log))]
                /\ hist' = HistAfter(hist, r.committed, r.seen)
    /\ prevRun' = Brief(lastRun)
    /\ runs' = runs + 1

\* a cycle during which the database stays healthy
ClassMonitoringCycle(lives) == MonitoringCycle(lives, {0})

ClassMonitoring == ClassMonitoringCycle(LiveStates)

Next == MorningSync \/ ClassMonitoring

Spec == Init /\ [][Next]_vars

(***************************************************************************)
(* Class monitoring alone, over a class with two entries of the farm       *)
(***************************************************************************)
\* the rows Flow 1 writes for entries 11 (horse 1) and 12 (horse 2) of class 101
MonitoredEntry(id, horse_id, api_entry_id) ==
    [EntryRow(id, horse_id, Some(101), Some(api_entry_id)) EXCEPT
        !.estimated_start = Some(<<Today, SP, "07:15:00">>)]

FreshStore ==
    SeededStore({MonitoredEntry(1, 1, 11), MonitoredEntry(2, 2, 12)})

BothTrips == <<NotGone(11), NotGone(12)>>

\* the store after a first cycle has found the class under way
UnderwayStore ==
    run_class_monitoring(FreshStore, Live(BaseCrd, BothTrips), <<1, 2>>).committed

MonitorStores == {FreshStore, UnderwayStore}

StatusStates ==
    {Live(Crd(st, Lit("07:15:00"), Some(RawInt(2))), BothTrips) :
        st \in {None, Some(NotStarted), Some(Underway), Some(<<SP, "Underway">>),
                Some(Completed)}}

TimeStates ==
    {Live(Crd(Some(Underway), t, Some(RawInt(2))), BothTrips) :
        t \in {None, Some(<<SP>>), Lit("07:45:00"), Some(<<Today, SP, "07:15:00">>)}}

ProgressStates ==
    {Live(Crd(Some(Underway), Lit("07:15:00"), c), BothTrips) :
        c \in {None, Some(RawInt(3)), Some(RawText)}}

\* a trip the provider reports as scratched, having gone in or not
Scratched(entry_id, gone_in) ==
    [Trip(entry_id, gone_in, None, None) EXCEPT !.scratch_trip = Some(RawInt(1))]

TripStates ==
    {Live(BaseCrd, trips) :
        trips \in {<<>>,
                   <<Placed(12, 3)>>,
                   <<Placed(11, 3), Placed(12, UNPLACED_PLACING)>>,
                   <<Placed(11, 0), NotGone(12)>>,
                   <<Placed(11, UNPLACED_PLACING + 1), NotGone(12)>>,
                   <<Trip(11, 0, Some(RawInt(5)), None), Trip(12, 1, None, None)>>,
                   <<Scratched(11, 1), Placed(12, 3)>>,
                   <<Scratched(11, 0), NotGone(12)>>}}

\* the class completes and entry 11 is placed third with prize 500
ResultState ==
    Live(Crd(Some(Completed), Lit("07:15:00"), Some(RawInt(5))),
         <<Placed(11, 3), NotGone(12)>>)

MonitorLiveStates ==
    StatusStates \cup TimeStates \cup ProgressStates \cup TripStates
        \cup {ResultState, FetchFailed}

InitMon ==
    /\ db \in MonitorStores
    /\ lastRun = NoRun
    /\ prevRun = NoRun
    /\ hist = HistOf(db)
    /\ runs = 0

Monitor == ClassMonitoringCycle(MonitorLiveStates)

NextMon == Monitor

SpecMon == InitMon /\ [][NextMon]_vars

(***************************************************************************)
(* Class monitoring over two active classes, 101 with entry 1 and 102 with *)
(* entry 2, with fetches that may fail and a database that may fail        *)
(***************************************************************************)
BatchStore ==
    [SeededStore({MonitoredEntry(1, 1, 11),
                  [MonitoredEntry(2, 2, 12) EXCEPT
                      !.api_class_id = Some(102), !.class_id = Some(2)]})
        EXCEPT !.classes =
                  {ClassRow,
                   [ClassRow EXCEPT !.id = 2, !.name = Str("Hunter"),
                                    !.class_number = None]}]

\* what one class request may bring: a failure, the class under way, or the
\* class under way with the entry gone and placed
ClassAnswers(entry_id) ==
    {None,
     Some([class_related_data |-> Some(BaseCrd), trips |-> <<NotGone(entry_id)>>]),
     Some([class_related_data |-> Some(Crd(Some(Underway), Lit("07:45:00"),
                                           Some(RawInt(3)))),
           trips |-> <<Placed(entry_id, 3)>>])}

BatchLiveStates ==
    {[c \in {101, 102} |-> IF c = 101 THEN a ELSE b] :
        a \in ClassAnswers(11), b \in ClassAnswers(12)}

\* the ledger flush that fails during a cycle, 0 for none
MaxFault == 3

InitBatch ==
    /\ db = BatchStore
    /\ lastRun = NoRun
    /\ prevRun = NoRun
    /\ hist = HistOf(db)
    /\ runs = 0

MonitorBatch == MonitoringCycle(BatchLiveStates, 0..MaxFault)

NextBatch == MonitorBatch

SpecBatch == InitBatch /\ [][NextBatch]_vars

(***************************************************************************)
(* The entry steps of Flow 1 on their own: the class map, the entry rows,  *)
(* the horses and the entry upsert (get_or_create_class_map_from_entry_    *)
(* details, build_entry_rows_and_collect_entities, bulk_upsert_horses,     *)
(* resolve_entry_rows_and_upsert) applied to a store whose entries class   *)
(* monitoring has been updating, between monitoring cycles                 *)
(***************************************************************************)
\* entries 1 and 2 synced earlier with rider Ann; then the class under way
SyncedStore ==
    [FreshStore EXCEPT
        !.riders = {[id |-> 1, farm_id |-> 1, name |-> Str("Ann")],
                    [id |-> 2, farm_id |-> 1, name |-> Str("Bob")]},
        !.entries = {[e EXCEPT !.rider_id = Some(1)] : e \in @}]

MonitoredStore ==
    run_class_monitoring(SyncedStore, Live(BaseCrd, <<Placed(11, 3), NotGone(12)>>),
                         <<1, 2>>).committed

DetailOf(entry_id, horse, rider, classes) ==
    [entry |-> [entry_id |-> Some(entry_id), horse |-> Some(horse)],
     entry_riders |-> <<[rider_name |-> Some(rider)]>>,
     classes |-> classes]

JumperAt(time) ==
    [EntryClass(101, Str("Jumper"), Lit("10")) EXCEPT !.schedule_starttime = Some(time)]

\* what the source reports at a re-sync: both entries as before, entry 11
\* with another rider and start time, entry 12 gone, entry 12 without a
\* class, a new class for entry 11, an entry 13 without a horse name beside
\* the two others and on its own, and nothing at all
DetailStates ==
    {<<DetailOf(11, Str("Apollo"), Str("Ann"), <<JumperAt(Str("07:15:00"))>>),
       DetailOf(12, Str("Comet"), Str("Ann"), <<JumperAt(Str("07:15:00"))>>)>>,
     <<DetailOf(11, Str("Apollo"), Str("Bob"), <<JumperAt(Str("09:30:00"))>>),
       DetailOf(12, Str("Comet"), Str("Ann"), <<JumperAt(Str("07:15:00"))>>)>>,
     <<DetailOf(11, Str("Apollo"), Str("Ann"), <<JumperAt(Str("07:15:00"))>>)>>,
     <<DetailOf(11, Str("Apollo"), Str("Ann"), <<JumperAt(Str("07:15:00"))>>),
       DetailOf(12, Str("Comet"), Str("Ann"), <<>>)>>,
     <<DetailOf(11, Str("Apollo"), Str("Ann"),
                <<EntryClass(102, Str("Hunter"), None)>>)>>,
     <<DetailOf(11, Str("Apollo"), Str("Ann"), <<JumperAt(Str("07:15:00"))>>),
       DetailOf(12, Str("Comet"), Str("Ann"), <<JumperAt(Str("07:15:00"))>>),
       DetailOf(13, <<>>, Str("Ann"), <<EntryClass(102, Str("Hunter"), None)>>)>>,
     <<DetailOf(13, <<>>, Str("Ann"), <<EntryClass(102, Str("Hunter"), None)>>)>>,
     <<>>}

EntriesResolved(p, h) ==
    resolve_entry_rows_and_upsert(
        h.session,
        build_entry_rows(p.entry_details, p.show_uuid, p.ring_number_to_event_id,
                         p.cm.map, p.sync_date),
        NameIdMap(h.session.horses, p.farm_id, CollectHorseNames(p.entry_details)),
        NameIdMap(h.session.riders, p.farm_id, CollectRiderNames(p.entry_details)),
        p.tie)

EntriesMapped(p, cm) ==
    EntriesResolved(p @@ [cm |-> cm],
        IF CollectHorseNames(p.entry_details) = {}
        THEN [session |-> cm.session, ret |-> <<0, 0>>]
        ELSE bulk_upsert_horses(cm.session, p.farm_id,
                                SetToSeq(CollectHorseNames(p.entry_details))))

\* the steps of run_daily_schedule from the class map to the entry upsert,
\* for show 1 of farm 1
SyncEntriesOf(store, entry_details, sync_date, tie) ==
    EntriesMapped([entry_details |-> entry_details, show_uuid |-> 1, farm_id |-> 1,
                   ring_number_to_event_id |-> <<>>,
                   sync_date |-> sync_date, tie |-> tie],
        get_or_create_class_map_from_entry_details(store, 1, entry_details))

InitResync ==
    /\ db \in {SyncedStore, MonitoredStore}
    /\ lastRun = NoRun
    /\ prevRun = NoRun
    /\ hist = HistOf(db)
    /\ runs = 0

\* the entry steps of a re-sync; db is the state of the transaction after them
EntryResync ==
    /\ runs < MaxRuns
    /\ \E details \in DetailStates, tie \in {"first", "last"} :
          \E r \in {SyncEntriesOf(db, details, Today, tie)} :
              /\ db' = IF r.err = NoErr THEN r.session ELSE db
              /\ lastRun' = [flow |-> "entries", ok |-> r.err = NoErr, err |-> r.err,
                             details |-> details, before |-> db,
                             total |-> IF r.err = NoErr THEN r.total ELSE 0]
              /\ hist' = HistAfter(hist, db', <<>>)
    /\ prevRun' = Brief(lastRun)
    /\ runs' = runs + 1

\* live answers for class 101 (entries 11 and 12) and class 102 (entry 11)
ResyncLiveStates ==
    {[c \in {101, 102} |-> IF c = 101 THEN a ELSE b] :
        a \in {None,
               Some([class_related_data |-> Some(BaseCrd), trips |-> BothTrips]),
               Some([class_related_data |->
                        Some(Crd(Some(Completed), Lit("07:45:00"), Some(RawInt(5)))),
                     trips |-> <<Placed(11, 3), Placed(12, 2)>>])},
        b \in {None,
               Some([class_related_data |-> Some(BaseCrd), trips |-> <<NotGone(11)>>])}}

MonitorResynced == ClassMonitoringCycle(ResyncLiveStates)

NextResync == EntryResync \/ MonitorResynced

SpecResync == InitResync /\ [][NextResync]_vars

(***************************************************************************)
(* Flow 3: horse availability (run_flow_3_horse_availability).  An instant *)
(* is a number of seconds since 00:00 UTC of Today; the venue is           *)
(* America/New_York, five hours behind UTC on the modelled days.           *)
(***************************************************************************)
\* the atoms of the estimated_start texts in the ascending order of the
\* column: a text starting "0" sorts before one starting "2026-"
TextOrder == <<SP, "07:15:00", "07:45:00", "09:30:00", "2026-02-19", "2026-02-20">>

AtomRank(a) == CHOOSE i \in DOMAIN TextOrder : TextOrder[i] = a

\* a < b in the order of a String column (no atom is a prefix of another)
RECURSIVE TextLess(_, _)
TextLess(a, b) ==
    IF b = <<>> THEN FALSE
    ELSE IF a = <<>> THEN TRUE
    ELSE IF Head(a) = Head(b) THEN TextLess(Tail(a), Tail(b))
    ELSE AtomRank(Head(a)) < AtomRank(Head(b))

\* seconds since midnight of a "HH:MM:SS" text, days since Today of a date
ClockOf == [a \in {"07:15:00", "07:45:00", "09:30:00"} |->
               IF a = "07:15:00" THEN 7 * 3600 + 15 * 60
               ELSE IF a = "07:45:00" THEN 7 * 3600 + 45 * 60
               ELSE 9 * 3600 + 30 * 60]

DayOf == [a \in {"2026-02-19", "2026-02-20"} |-> IF a = "2026-02-19" THEN 0 ELSE 1]

\* the rows of the remaining-entries query
RemainingIds(session, horse_id, show_id, completed_entry_id, scheduled_date) ==
    {x.id : x \in {e \in session.entries :
        /\ e.horse_id = horse_id
        /\ e.show_id = Some(show_id)
        /\ e.scheduled_date = Some(scheduled_date)
        /\ e.id # completed_entry_id
        /\ ~e.gone_in
        /\ (e.class_status = None \/ e.class_status # Some(Completed))}}

\* row a may not come after row b under ORDER BY estimated_start ASC NULLS LAST
StartsBefore(a, b) ==
    /\ a.estimated_start # None
    /\ b.estimated_start = None \/ TextLess(a.estimated_start[1], b.estimated_start[1])

\* the query that also returns the completed entry
RemainingWithCompleted(session, horse_id, show_id, completed_entry_id, scheduled_date) ==
    Perms(RemainingIds(session, horse_id, show_id, 0, scheduled_date))

\* the results the database may return: rows with equal keys in any order
get_horse_remaining_entries_today(session, horse_id, show_id, completed_entry_id, scheduled_date) ==
    {order \in Perms(RemainingIds(session, horse_id, show_id, completed_entry_id,
                                  scheduled_date)) :
        \A i, j \in DOMAIN order :
            i < j => ~StartsBefore(RowById(session.entries, order[j]),
                                   RowById(session.entries, order[i]))}

\* naive local datetime as seconds since 00:00 of Today: the full text of
\* Flow 1, a bare time combined with scheduled_date, or an ISO date
_parse_estimated_start_naive(estimated_start, scheduled_date) ==
    IF estimated_start = None \/ strip(estimated_start[1]) = <<>> THEN None
    ELSE LET s == strip(estimated_start[1])
         IN  IF Len(s) = 3 /\ s[1] \in DOMAIN DayOf /\ s[2] = SP /\ s[3] \in DOMAIN ClockOf
             THEN Some(DayOf[s[1]] * 86400 + ClockOf[s[3]])
             ELSE IF scheduled_date # None /\ Len(s) = 1 /\ s[1] \in DOMAIN ClockOf
             THEN Some(DayOf[scheduled_date[1]] * 86400 + ClockOf[s[1]])
             ELSE IF Len(s) = 1 /\ s[1] \in DOMAIN DayOf
             THEN Some(DayOf[s[1]] * 86400)
             ELSE None

\* localized to the venue and converted to UTC
_parse_estimated_start(estimated_start, scheduled_date) ==
    LET naive == _parse_estimated_start_naive(estimated_start, scheduled_date)
    IN  IF naive = None THEN None ELSE Some(naive[1] + 5 * 3600)

\* "%H:%M" of the naive time, as the minute of the day; the text itself
\* when it does not parse
_format_time_display(estimated_start, scheduled_date) ==
    LET dt == _parse_estimated_start_naive(estimated_start, scheduled_date)
    IN  IF dt = None
        THEN (IF estimated_start \in {None, Some(<<>>)} THEN Some(Dash) ELSE estimated_start)
        ELSE Some((dt[1] % 86400) \div 60)

\* the difference not floored at zero
FreeTimeSigned(next_dt, current_time) ==
    IF next_dt = None THEN [free_hours |-> None, free_mins |-> None]
    ELSE [free_hours |-> Some((next_dt[1] - current_time) \div 3600),
          free_mins |-> Some(((next_dt[1] - current_time) % 3600) \div 60)]

\* free_minutes = free_seconds / 60; hours = free_minutes // 60 and
\* minutes = free_minutes % 60, both truncated to int
FreeTime(next_dt, current_time) ==
    IF next_dt = None THEN [free_hours |-> None, free_mins |-> None]
    ELSE IF next_dt[1] - current_time > 0
    THEN [free_hours |-> Some((next_dt[1] - current_time) \div 3600),
          free_mins |-> Some(((next_dt[1] - current_time) % 3600) \div 60)]
    ELSE [free_hours |-> Some(0), free_mins |-> Some(0)]

_build_availability_message(has_next, next_class_name, free) ==
    IF has_next /\ next_class_name \notin {None, Some(<<>>)}
    THEN [title |-> "Trip Completed", body |-> "Next",
          next |-> next_class_name,
          free |-> IF free.free_hours # None /\ free.free_mins # None
                   THEN Some(<<free.free_hours[1], free.free_mins[1]>>)
                   ELSE None]
    ELSE [title |-> "Done for Today!", body |-> "No more classes scheduled today",
          next |-> None, free |-> None]

\* the payload; the next_* keys are present only when has_next
AvailabilityPayload(session, horse_id, completed_entry_id, completed_class_id, show_id, remaining, free) ==
    IF remaining = <<>>
    THEN [horse_id |-> horse_id, completed_class_id |-> completed_class_id,
          completed_entry_id |-> completed_entry_id, show_id |-> show_id,
          has_next |-> FALSE, free_hours |-> None, free_mins |-> None,
          next_class_name |-> None, next_class_time |-> None,
          next_ring_name |-> None, order_of_go |-> None]
    ELSE LET next_entry == RowById(session.entries, remaining[1])
         IN  [horse_id |-> horse_id, completed_class_id |-> completed_class_id,
              completed_entry_id |-> completed_entry_id, show_id |-> show_id,
              has_next |-> TRUE, free_hours |-> free.free_hours,
              free_mins |-> free.free_mins,
              next_class_name |->
                  Some(NameOf(Related(session.classes, next_entry.class_id),
                              Str("Unknown Class"))),
              next_class_time |->
                  _format_time_display(next_entry.estimated_start,
                                       next_entry.scheduled_date),
              next_ring_name |->
                  Some(NameOf(Related(session.events, next_entry.event_id),
                              Str("Unknown Ring"))),
              order_of_go |-> next_entry.order_of_go]

NextStart(session, remaining) ==
    IF remaining = <<>> THEN None
    ELSE _parse_estimated_start(RowById(session.entries, remaining[1]).estimated_start,
                                RowById(session.entries, remaining[1]).scheduled_date)

LogAvailability(session, farm_id, completed_entry_id, payload, fault) ==
    IF fault = "log" THEN [session |-> session, ret |-> None]
    ELSE [session |->
             log_notification(session, farm_id, "horse_availability", "HORSE_COMPLETED",
                              _build_availability_message(
                                  payload.has_next, payload.next_class_name,
                                  [free_hours |-> payload.free_hours,
                                   free_mins |-> payload.free_mins]),
                              payload, Some(completed_entry_id)),
          ret |-> Some(payload)]

\* remaining: the result of the remaining-entries query; fault: "lookup"
\* when that query raises, "log" when the ledger write raises.  Both are
\* caught and the function returns None
run_flow_3_horse_availability(session, farm_id, horse_id, completed_entry_id, completed_class_id, show_id, remaining, current_time, fault) ==
    IF fault = "lookup" THEN [session |-> session, ret |-> None]
    ELSE LogAvailability(session, farm_id, completed_entry_id,
            AvailabilityPayload(session, horse_id, completed_entry_id, completed_class_id,
                                show_id, remaining,
                                FreeTime(NextStart(session, remaining), current_time)),
            fault)

(***************************************************************************)
(* The availability calculation on its own, called for an entry that class *)
(* monitoring would find completed (loaded as active, gone_in still false  *)
(* in the session).  Horse 1 has entry 1 in class 101 and up to two more   *)
(* entries; estimated_start is the full text Flow 1 writes                 *)
(* (_estimated_start_utc), the bare time Flow 2 writes (api_estimated), or *)
(* null.                                                                   *)
(***************************************************************************)
\* what a further entry of horse 1 may look like
LaterStarts ==
    {None, Lit("07:45:00"), Lit("09:30:00"),
     Some(<<Today, SP, "07:45:00">>), Some(<<Today, SP, "09:30:00">>)}

LaterEntries(id, api_class_id) ==
    {[EntryRow(id, 1, Some(api_class_id), Some(11)) EXCEPT
          !.class_id = Some(id), !.estimated_start = start, !.order_of_go = Some(id)] :
        start \in LaterStarts}
    \cup
    {[EntryRow(id, 1, Some(api_class_id), Some(11)) EXCEPT
          !.class_id = Some(id), !.estimated_start = Lit("07:45:00"),
          !.gone_in = TRUE, !.status = "completed"],
     [EntryRow(id, 1, Some(api_class_id), Some(11)) EXCEPT
          !.class_id = Some(id), !.estimated_start = Lit("07:45:00"),
          !.class_status = Some(Completed)],
     [EntryRow(id, 1, Some(api_class_id), Some(11)) EXCEPT
          !.class_id = Some(id), !.estimated_start = Lit("07:45:00"),
          !.scheduled_date = Some("2026-02-20")]}

AvailStore(later) ==
    [SeededStore({MonitoredEntry(1, 1, 11), MonitoredEntry(4, 2, 12)} \cup later)
        EXCEPT !.classes =
                  {ClassRow,
                   [ClassRow EXCEPT !.id = 2, !.name = Str("Hunter"),
                                    !.class_number = None],
                   [ClassRow EXCEPT !.id = 3, !.name = Str("Derby"),
                                    !.class_number = None]}]

AvailStores ==
    {AvailStore(second \cup third) :
        second \in {{}} \cup {{e} : e \in LaterEntries(2, 102)},
        third \in {{}} \cup {{e} : e \in LaterEntries(3, 103)}}

\* the instants of the calls: before the first start, 59 seconds before
\* 07:45 local, at 07:45 local, between the starts, after the last start
NowStates == {40000, 12 * 3600 + 45 * 60 - 59, 12 * 3600 + 45 * 60, 48001, 60000}

InitAvail ==
    /\ db \in AvailStores
    /\ lastRun = NoRun
    /\ prevRun = NoRun
    /\ hist = HistOf(db)
    /\ runs = 0

\* calls of the calculator in one behaviour
MaxCalls == 1

\* one call of run_flow_3_horse_availability, committed by its caller
AvailabilityRun ==
    /\ runs < MaxCalls
    /\ \E id \in ActiveEntryIds(db, 1, Today), now \in NowStates,
          fault \in {"none", "lookup", "log"} :
        \E e \in {RowById(db.entries, id)} :
          /\ ~e.gone_in
          /\ \E remaining \in get_horse_remaining_entries_today(
                                  db, e.horse_id, e.show_id[1], e.id, Today) :
               \E r \in {run_flow_3_horse_availability(
                            db, 1, e.horse_id, e.id, e.class_id, e.show_id[1],
                            remaining, now, fault)} :
                  /\ db' = r.session
                  /\ lastRun' = [flow |-> "flow3", entry |-> e, now |-> now,
                                 fault |-> fault, remaining |-> remaining,
                                 ret |-> r.ret, before |-> db]
    /\ hist' = hist
    /\ prevRun' = Brief(lastRun)
    /\ runs' = runs + 1

NextAvail == AvailabilityRun

SpecAvail == InitAvail /\ [][NextAvail]_vars

(***************************************************************************)
(* GET /schedule/notifications: get_recent_notifications over a ledger     *)
(* written by two monitoring cycles.  A query result is a sequence of      *)
(* ledger row ids.                                                         *)
(***************************************************************************)
\* str.lower() of the name atoms
Lower ==
    [a \in {"Apollo", "Comet", "Jumper", "apollo", "comet", "jumper", "COMET", SP} |->
        IF a \in {"Apollo", "apollo"} THEN "apollo"
        ELSE IF a \in {"Comet", "comet", "COMET"} THEN "comet"
        ELSE IF a \in {"Jumper", "jumper"} THEN "jumper"
        ELSE SP]

TextLower(s) == [i \in DOMAIN s |-> Lower[s[i]]]

\* f in s for two str
IsInfix(f, s) ==
    \E i \in 0..Len(s) : i + Len(f) <= Len(s) /\ SubSeq(s, i + 1, i + Len(f)) = f

\* the ledger after a cycle that found class 101 under way and a second
\* cycle that found both entries gone and placed
QueryStore ==
    run_class_monitoring(UnderwayStore, Live(BaseCrd, <<Placed(11, 3), Placed(12, 2)>>),
                         <<1, 2>>).committed

\* created_at is now() of the inserting transaction: the rows of one cycle
\* share it
CreatedAt(i) == IF i <= Len(UnderwayStore.notification_log) THEN 1 ELSE 2

\* the WHERE clause: farm, source, type and day of creation
Selected(session, farm_id, source, notification_type, date_filter) ==
    {i \in DOMAIN session.notification_log :
        /\ session.notification_log[i].farm_id = farm_id
        /\ source # None => session.notification_log[i].source = source[1]
        /\ notification_type # None =>
              session.notification_log[i].notification_type = notification_type[1]
        /\ date_filter # None => date_filter[1] = Today}

\* ORDER BY created_at DESC: rows of equal created_at in any order
NewestFirst(ids) ==
    {order \in Perms(ids) :
        \A i, j \in DOMAIN order : i < j => CreatedAt(order[i]) >= CreatedAt(order[j])}

\* OFFSET and LIMIT
Page(order, limit, offset) ==
    SubSeq(order, offset + 1,
           IF offset + limit < Len(order) THEN offset + limit ELSE Len(order))

\* r.entry and r.entry.<rel> and filter.strip().lower() in (name or "").lower()
NameMatches(rel, filter) ==
    rel # None /\ IsInfix(TextLower(strip(filter)), TextLower(rel[1].name))

LedgerEntry(session, i) ==
    Related(session.entries, session.notification_log[i].entry_id)

HorseMatches(session, i, horse_name) ==
    /\ LedgerEntry(session, i) # None
    /\ NameMatches(Related(session.horses, Some(LedgerEntry(session, i)[1].horse_id)),
                   horse_name)

ClassMatches(session, i, class_name) ==
    /\ LedgerEntry(session, i) # None
    /\ NameMatches(Related(session.classes, LedgerEntry(session, i)[1].class_id),
                   class_name)

\* the post-filter over the rows the statement returned
NameFiltered(session, rows, horse_name, class_name) ==
    SelectSeq2(rows,
        {i \in Range(rows) :
            /\ horse_name # None => HorseMatches(session, i, horse_name[1])
            /\ class_name # None => ClassMatches(session, i, class_name[1])})

\* order: the order in which the database returns the selected rows
get_recent_notifications(session, limit, offset, horse_name, class_name, order) ==
    NameFiltered(session, Page(order, limit, offset), horse_name, class_name)

InitQuery ==
    /\ db = QueryStore
    /\ lastRun = NoRun
    /\ prevRun = NoRun
    /\ hist = HistOf(db)
    /\ runs = 0

\* one request; it reads only, so a behaviour holds one
ListNotifications ==
    /\ lastRun = NoRun
    /\ \E limit \in {1, 2}, offset \in {0, 1},
          source \in {None, Some("class_monitoring"), Some("horse_availability")},
          notification_type \in {None, Some("RESULT")},
          date_filter \in {None, Some(Today), Some("2026-02-20")},
          horse_name \in {None, Some(<<SP, "COMET">>), Some(<<>>)},
          class_name \in {None, Some(Str("jumper"))} :
        \E order \in NewestFirst(Selected(db, ensure_farm_and_token(db).farm_id,
                                          source, notification_type, date_filter)) :
           lastRun' = [flow |-> "query", limit |-> limit, offset |-> offset,
                       horse_name |-> horse_name, class_name |-> class_name,
                       order |-> order,
                       rows |-> get_recent_notifications(db, limit, offset, horse_name,
                                                         class_name, order)]
    /\ UNCHANGED <<db, prevRun, hist, runs>>

NextQuery == ListNotifications

SpecQuery == InitQuery /\ [][NextQuery]_vars

(***************************************************************************)
(* fetch_entry_details step by step: the requests of one batch are started *)
(* together by asyncio.gather, finish in any order, and the batch is       *)
(* collected when all have finished.  lastRun holds the state of the loop. *)
(***************************************************************************)
ENTRY_DETAIL_BATCH_SIZE == 10

\* the whole rest of the list requested at once
BatchUnbounded(entries_list, i) == (i + 1)..Len(entries_list)

\* positions of entries_list[i : i + ENTRY_DETAIL_BATCH_SIZE]
Batch(entries_list, i) ==
    {p \in DOMAIN entries_list : i < p /\ p <= i + ENTRY_DETAIL_BATCH_SIZE}

\* the tasks of a batch: its summaries with an entry_id
BatchTasks(entries_list, i) ==
    {p \in Batch(entries_list, i) : entries_list[p].entry_id # None}

\* the results of gather from position p on, in the order of the tasks,
\* exceptions left out
RECURSIVE Gathered(_, _, _)
Gathered(results, p, last) ==
    IF p > last THEN <<>>
    ELSE (IF p \in DOMAIN results /\ results[p] # None THEN <<results[p][1]>> ELSE <<>>)
         \o Gathered(results, p + 1, last)

\* /entries/my of thirteen entries, the eleventh without entry_id, and its
\* prefixes of three and ten entries
SummaryList(n) ==
    [p \in 1..n |-> [entry_id |-> IF p = 11 THEN None ELSE Some(p)]]

\* the detail requests that fail
DetailAnswers(failing) ==
    [id \in 1..13 |-> IF id \in failing THEN None
                      ELSE Some([entry |-> [entry_id |-> Some(id)]])]

InitDetails ==
    /\ db = EmptyStore
    /\ lastRun \in {[flow |-> "details", entries_list |-> SummaryList(n),
                     details |-> DetailAnswers(failing), i |-> 0, phase |-> "idle",
                     inflight |-> {}, results |-> <<>>, entry_details |-> <<>>,
                     requested |-> [p \in 1..n |-> 0]] :
                       n \in {3, 10, 13}, failing \in {{}, {2}, {2, 12}}}
    /\ prevRun = NoRun
    /\ hist = HistOf(db)
    /\ runs = 0

\* results = await asyncio.gather(*tasks, ...): every request of the batch
\* is started
StartBatch ==
    /\ lastRun.flow = "details" /\ lastRun.phase = "idle"
    /\ lastRun' = [lastRun EXCEPT
          !.phase = "gather",
          !.inflight = BatchTasks(lastRun.entries_list, lastRun.i),
          !.results = <<>>,
          !.requested = [p \in DOMAIN @ |->
                            IF p \in BatchTasks(lastRun.entries_list, lastRun.i)
                            THEN @[p] + 1 ELSE @[p]]]
    /\ UNCHANGED <<db, prevRun, hist, runs>>

\* one request in flight finishes, with a detail or an exception
DetailFetched ==
    /\ lastRun.flow = "details" /\ lastRun.phase = "gather"
    /\ \E p \in lastRun.inflight :
          lastRun' = [lastRun EXCEPT
              !.inflight = @ \ {p},
              !.results = @ @@ (p :> lastRun.details[lastRun.entries_list[p].entry_id[1]])]
    /\ UNCHANGED <<db, prevRun, hist, runs>>

\* gather returns when no request is in flight; the loop appends the
\* results and goes on to the next batch
GatherBatch ==
    /\ lastRun.flow = "details" /\ lastRun.phase = "gather"
    /\ lastRun.inflight = {}
    /\ lastRun' = [lastRun EXCEPT
          !.entry_details = @ \o Gathered(lastRun.results, lastRun.i + 1,
                                          lastRun.i + ENTRY_DETAIL_BATCH_SIZE),
          !.results = <<>>,
          !.i = @ + ENTRY_DETAIL_BATCH_SIZE,
          !.phase = IF lastRun.i + ENTRY_DETAIL_BATCH_SIZE < Len(lastRun.entries_list)
                    THEN "idle" ELSE "done"]
    /\ UNCHANGED <<db, prevRun, hist, runs>>

NextDetails == StartBatch \/ DetailFetched \/ GatherBatch

SpecDetails == InitDetails /\ [][NextDetails]_vars

(***************************************************************************)
(* run_class_monitoring step by step: the class requests are started       *)
(* together by asyncio.gather and finish in any order; the loop over the   *)
(* results runs when all have finished, one class at a time, and the       *)
(* session is committed after it.  lastRun holds the state of the run.     *)
(***************************************************************************)
\* the results taken in the order in which the requests finished
GatherAsCompleted(tasks, live, completed) ==
    [k \in DOMAIN tasks |-> live[tasks[completed[k]].api_class_id]]

\* fetch_results of asyncio.gather: the result of the i-th request at
\* position i, whatever the order of completion
Gather(tasks, live, completed) ==
    [i \in DOMAIN tasks |-> live[tasks[i].api_class_id]]

\* class 101 answers as in the batch specification; class 102 fails or is
\* found completed with its entry placed
GatherLiveStates ==
    {[c \in {101, 102} |-> IF c = 101 THEN a ELSE b] :
        a \in ClassAnswers(11),
        b \in {None,
               Some([class_related_data |->
                        Some(Crd(Some(Completed), Lit("09:30:00"), Some(RawInt(5)))),
                     trips |-> <<Placed(12, 2)>>])}}

InitGather ==
    /\ db = BatchStore
    /\ lastRun = NoRun
    /\ prevRun = NoRun
    /\ hist = HistOf(db)
    /\ runs = 0

\* the session is opened, the active classes are loaded and every class
\* request is started
StartCycle ==
    /\ runs < MaxCalls
    /\ IF lastRun.flow = "none" THEN TRUE ELSE lastRun.phase = "done"
    /\ \E live \in GatherLiveStates, farm \in {ensure_farm_and_token(db)} :
          \E order \in Perms(ActiveEntryIds(farm.session, farm.farm_id, Today)) :
             \E tasks \in {get_active_classes_and_entries(farm.session, order)} :
                lastRun' = [flow |-> "gather", phase |-> "fetch", live |-> live,
                            tasks |-> tasks, before |-> db,
                            pending |-> DOMAIN tasks, completed |-> <<>>,
                            class_data_list |-> <<>>, next |-> 1,
                            acc |-> [start |-> db, session |-> farm.session,
                                     updated |-> 0, changes |-> <<>>, alerts |-> <<>>,
                                     flow3 |-> <<>>, seen |-> <<>>, err |-> NoErr,
                                     fault |-> 0, flushes |-> 0]]
    /\ runs' = runs + 1
    /\ UNCHANGED <<db, prevRun, hist>>

\* one class request finishes
ClassFetched ==
    /\ lastRun.flow = "gather" /\ lastRun.phase = "fetch"
    /\ \E i \in lastRun.pending :
          lastRun' = [lastRun EXCEPT !.pending = @ \ {i},
                                     !.completed = Append(@, i)]
    /\ UNCHANGED <<db, prevRun, hist, runs>>

\* gather returns when every request has finished
AllFetched ==
    /\ lastRun.flow = "gather" /\ lastRun.phase = "fetch"
    /\ lastRun.pending = {}
    /\ lastRun' = [lastRun EXCEPT
          !.phase = "process",
          !.class_data_list = Gather(lastRun.tasks, lastRun.live, lastRun.completed)]
    /\ UNCHANGED <<db, prevRun, hist, runs>>

\* one turn of the loop over zip(classes_and_entries, class_data_list)
ProcessClass ==
    /\ lastRun.flow = "gather" /\ lastRun.phase = "process"
    /\ lastRun.next <= Len(lastRun.tasks)
    /\ lastRun' = [lastRun EXCEPT
          !.acc = _process_one_class_with_data(
                      @, lastRun.tasks[lastRun.next].entries,
                      lastRun.class_data_list[lastRun.next]),
          !.next = @ + 1]
    /\ UNCHANGED <<db, prevRun, hist, runs>>

\* await session.commit()
CommitCycle ==
    /\ lastRun.flow = "gather" /\ lastRun.phase = "process"
    /\ lastRun.next > Len(lastRun.tasks)
    /\ db' = CycleResult(lastRun.acc, lastRun.tasks).committed
    /\ lastRun' = [lastRun EXCEPT !.phase = "done"]
    /\ UNCHANGED <<prevRun, hist, runs>>

NextGather == StartCycle \/ ClassFetched \/ AllFetched \/ ProcessClass \/ CommitCycle

SpecGather == InitGather /\ [][NextGather]_vars

(***************************************************************************)
(* Two runs started against a store without the configured farm.  Each run *)
(* has its own session (AsyncSessionLocal) and transaction: it looks the   *)
(* farm up, and later, having seen only committed rows, creates the farm   *)
(* it did not find, does the rest of its work and commits or rolls back.   *)
(* The farms table has a primary key and no unique index.                  *)
(***************************************************************************)
\* get_or_create_farm after its lookup has returned existing
FarmAfterLookup(session, existing) ==
    IF existing # None
    THEN [session |-> session, farm_id |-> existing[1].id]
    ELSE [session |-> create_farm(session, ConfiguredFarm.name, ConfiguredFarm.customer_id),
          farm_id |-> NewId(session.farms)]

Runs == {1, 2}

InitFarm ==
    /\ db = EmptyStore
    /\ \E kind \in [Runs -> {"flow1", "flow2"}] :
          lastRun = [flow |-> "farm", kind |-> kind,
                     pc |-> [p \in Runs |-> "start"],
                     existing |-> [p \in Runs |-> None],
                     ok |-> [p \in Runs |-> FALSE],
                     ext |-> [p \in Runs |-> None]]
    /\ prevRun = NoRun
    /\ hist = HistOf(db)
    /\ runs = 0

\* the lookup of get_or_create_farm: the run sees the committed farms
LookupFarm ==
    \E p \in Runs :
        /\ lastRun.pc[p] = "start"
        /\ lastRun' = [lastRun EXCEPT
              !.pc[p] = "looked",
              !.existing[p] = get_farm_by_name_and_customer(
                                 db, ConfiguredFarm.name, ConfiguredFarm.customer_id)]
        /\ UNCHANGED <<db, prevRun, hist, runs>>

\* the rest of a Flow 1 run: create the farm if the lookup found none, sync,
\* commit or roll back
FinishSync ==
    \E p \in Runs, ext \in ExternalStates :
        /\ lastRun.pc[p] = "looked" /\ lastRun.kind[p] = "flow1"
        /\ \E r \in {SyncFarm([store |-> db, ext |-> ext, sync_date |-> Today,
                               tie |-> "first"],
                              FarmAfterLookup(db, lastRun.existing[p]))} :
              /\ db' = r.committed
              /\ lastRun' = [lastRun EXCEPT !.pc[p] = "done", !.ok[p] = r.ok,
                                            !.ext[p] = Some(ext)]
              /\ hist' = HistAfter(hist, r.committed, <<>>)
        /\ UNCHANGED <<prevRun, runs>>

\* the rest of a Flow 2 run: create the farm if the lookup found none, load
\* the active entries, process, commit
FinishCycle ==
    \E p \in Runs, live \in LiveStates :
        /\ lastRun.pc[p] = "looked" /\ lastRun.kind[p] = "flow2"
        /\ \E farm \in {FarmAfterLookup(db, lastRun.existing[p])} :
            \E order \in Perms(ActiveEntryIds(farm.session, farm.farm_id, Today)) :
              \E r \in {MonitorFarm(db, farm, live, order, 0)} :
                /\ db' = r.committed
                /\ lastRun' = [lastRun EXCEPT !.pc[p] = "done", !.ok[p] = r.ok,
                                              !.ext[p] = Some(live)]
                /\ hist' = HistAfter(hist, r.committed, r.seen)
        /\ UNCHANGED <<prevRun, runs>>

NextFarm == LookupFarm \/ FinishSync \/ FinishCycle

SpecFarm == InitFarm /\ [][NextFarm]_vars

(***************************************************************************)
(* A re-sync between two class monitoring cycles that meet the same live   *)
(* state: a cycle, the entry steps of Flow 1 over the same entries, and a  *)
(* second cycle.  Every entry has its trip in the live data.               *)
(***************************************************************************)
BetweenLiveStates ==
    {Live(Crd(st, Some(t), Some(RawInt(2))), trips) :
        st \in {Some(NotStarted), Some(Underway)},
        t \in {Str("07:15:00"), Str("07:45:00"), <<Today, SP, "09:30:00">>},
        trips \in {BothTrips, <<Placed(11, 3), NotGone(12)>>}}

\* the source reports both entries as before, or entry 11 with another rider
\* and start time
SameEntriesDetails ==
    {<<DetailOf(11, Str("Apollo"), Str("Ann"), <<JumperAt(Str("07:15:00"))>>),
       DetailOf(12, Str("Comet"), Str("Ann"), <<JumperAt(Str("07:15:00"))>>)>>,
     <<DetailOf(11, Str("Apollo"), Str("Bob"), <<JumperAt(Str("09:30:00"))>>),
       DetailOf(12, Str("Comet"), Str("Ann"), <<JumperAt(Str("07:15:00"))>>)>>}

InitBetween ==
    /\ db \in {SyncedStore, MonitoredStore}
    /\ lastRun = NoRun
    /\ prevRun = NoRun
    /\ hist = HistOf(db)
    /\ runs = 0

\* a cycle of Flow 2; the live state is remembered for the cycle after the
\* re-sync
CycleBefore ==
    /\ lastRun = NoRun
    /\ \E live \in BetweenLiveStates :
          \E order \in Perms(ActiveEntryIds(db, 1, Today)) :
             \E r \in {run_class_monitoring(db, live, order)} :
                /\ db' = r.committed
                /\ lastRun' = [flow |-> "between", step |-> 1, live |-> live,
                               first |-> r.changes, resynced |-> FALSE,
                               before |-> db, changes |-> r.changes]
                /\ hist' = HistAfter(hist, r.committed, r.seen)
    /\ UNCHANGED <<prevRun, runs>>

\* the entry steps of Flow 1 over the same entries
ResyncBetween ==
    /\ lastRun.flow = "between"
    /\ IF lastRun.flow = "between" THEN lastRun.step = 1 ELSE FALSE
    /\ \E details \in SameEntriesDetails, tie \in {"first", "last"} :
          \E r \in {SyncEntriesOf(db, details, Today, tie)} :
              /\ db' = IF r.err = NoErr THEN r.session ELSE db
              /\ lastRun' = [lastRun EXCEPT !.step = 2, !.resynced = r.err = NoErr,
                                            !.before = db]
              /\ hist' = HistAfter(hist, db', <<>>)
    /\ UNCHANGED <<prevRun, runs>>

\* the next cycle of Flow 2, the provider answering as before
CycleAfter ==
    /\ lastRun.flow = "between"
    /\ IF lastRun.flow = "between" THEN lastRun.step = 2 ELSE FALSE
    /\ \E order \in Perms(ActiveEntryIds(db, 1, Today)) :
          \E r \in {run_class_monitoring(db, lastRun.live, order)} :
             /\ db' = r.committed
             /\ lastRun' = [lastRun EXCEPT !.step = 3, !.changes = r.changes,
                                           !.before = db]
             /\ hist' = HistAfter(hist, r.committed, r.seen)
    /\ UNCHANGED <<prevRun, runs>>

NextBetween == CycleBefore \/ ResyncBetween \/ CycleAfter

SpecBetween == InitBetween /\ [][NextBetween]_vars

(***************************************************************************)
(* The ring step and the entry steps of Flow 1 over a store that holds     *)
(* Event rows of earlier syncs                                             *)
(***************************************************************************)
EventRow(id, name, ring_number) ==
    [id |-> id, farm_id |-> 1, name |-> Str(name), ring_number |-> Some(ring_number)]

\* no ring yet, the ring as reported now, another name under ring number 1,
\* the ring's name under ring number 2, and both of these
RingStores ==
    {[SyncedStore EXCEPT !.events = evs] :
        evs \in {{},
                 {EventRow(1, "Main Ring", 1)},
                 {EventRow(1, "Old Ring", 1)},
                 {EventRow(1, "Main Ring", 2)},
                 {EventRow(1, "Old Ring", 1), EventRow(2, "Main Ring", 2)}}}

RingNamed(name, ring_number) ==
    [ring_name |-> Lit(name), ring_number |-> Some(ring_number), classes |-> <<>>]

RingStates ==
    {<<RingNamed("Main Ring", 1)>>,
     <<RingNamed("Main Ring", 1), RingNamed("Side Ring", 2)>>}

\* both entries in class 101, held in ring 1; entry 12 also in class 102,
\* held in ring 2
RingDetails ==
    {<<DetailOf(11, Str("Apollo"), Str("Ann"), <<JumperAt(Str("07:15:00"))>>),
       DetailOf(12, Str("Comet"), Str("Ann"), <<JumperAt(Str("07:15:00"))>>)>>,
     <<DetailOf(11, Str("Apollo"), Str("Ann"), <<JumperAt(Str("07:15:00"))>>),
       DetailOf(12, Str("Comet"), Str("Ann"),
                <<JumperAt(Str("07:15:00")),
                  [EntryClass(102, Str("Hunter"), None) EXCEPT !.ring = Some(2)]>>)>>}

\* steps 3 and 6 to 9 of run_daily_schedule for show 1 of farm 1
RingsMapped(p, ev) ==
    [ring_number_to_event_id |-> ev.ring_number_to_event_id,
     entries |->
        EntriesMapped(p @@ [ring_number_to_event_id |-> ev.ring_number_to_event_id],
            get_or_create_class_map_from_entry_details(ev.session, 1, p.entry_details))]

SyncRingsAndEntries(store, rings_data, entry_details, sync_date, tie) ==
    RingsMapped([entry_details |-> entry_details, show_uuid |-> 1, farm_id |-> 1,
                 sync_date |-> sync_date, tie |-> tie],
                upsert_events_and_build_ring_map(store, 1, rings_data, tie))

InitRings ==
    /\ db \in RingStores
    /\ lastRun = NoRun
    /\ prevRun = NoRun
    /\ hist = HistOf(db)
    /\ runs = 0

RingResync ==
    /\ runs < MaxRuns
    /\ \E rings_data \in RingStates, details \in RingDetails, tie \in {"first", "last"} :
          \E r \in {SyncRingsAndEntries(db, rings_data, details, Today, tie)} :
              /\ db' = IF r.entries.err = NoErr THEN r.entries.session ELSE db
              /\ lastRun' = [flow |-> "rings", ok |-> r.entries.err = NoErr,
                             rings_data |-> rings_data, details |-> details,
                             ring_number_to_event_id |-> r.ring_number_to_event_id,
                             before |-> db]
              /\ hist' = HistAfter(hist, db', <<>>)
    /\ prevRun' = NoRun
    /\ runs' = runs + 1

NextRings == RingResync

SpecRings == InitRings /\ [][NextRings]_vars

(***************************************************************************)
(* Properties                                                              *)
(***************************************************************************)
TwoTierUnique(rows) ==
    \A a, b \in rows :
        (a # b /\ a.horse_id = b.horse_id /\ a.show_id = b.show_id) =>
            /\ (a.api_class_id # None /\ b.api_class_id # None
                    => a.api_class_id # b.api_class_id)
            /\ ~(a.api_class_id = None /\ b.api_class_id = None)

\* C1: after any sequence of Flow 1 runs and Flow 2 cycles no two Entry rows
\* share (horse_id, show_id, api_class_id) with api_class_id not null, and
\* every (horse_id, show_id) has at most one Entry row with api_class_id null.
C1_TwoTierUniqueness == TwoTierUnique(db.entries)

\* a Flow 1 run and then a Flow 2 cycle that wrote an entry have passed, and
\* one horse of the show has a row with a class and a row without
C1_Witness ==
    /\ prevRun.flow = "flow1"
    /\ lastRun.flow = "flow2"
    /\ lastRun.summary.entries_updated > 0
    /\ \E a, b \in db.entries :
          /\ a.horse_id = b.horse_id /\ a.show_id = b.show_id
          /\ a.api_class_id = None /\ b.api_class_id # None

\* the provider answered the schedule request of the last Flow 1 run
ProviderAnswered == lastRun.err # "WellingtonAPIError"

IdentityFields(e) ==
    <<e.id, e.horse_id, e.show_id, e.class_id, e.event_id, e.api_class_id,
      e.api_entry_id>>

\* C2: the second of two Flow 1 runs in a row against unchanged external
\* state reports inserted = 0 for horses, riders, rings, classes and entries,
\* adds no Horse/Rider/Event/Class/Entry row and leaves every Entry's
\* identity fields as they were after the first run.
C2_SecondRunAddsNothing ==
    (/\ prevRun.flow = "flow1" /\ lastRun.flow = "flow1"
     /\ prevRun.ext = lastRun.ext
     /\ ProviderAnswered)
    => /\ lastRun.ok
       /\ lastRun.summary.horses.inserted = 0
       /\ lastRun.summary.riders.inserted = 0
       /\ lastRun.summary.rings.inserted = 0
       /\ lastRun.summary.classes.inserted = 0
       /\ lastRun.summary.entries.inserted = 0
       /\ db.horses = lastRun.before.horses
       /\ db.riders = lastRun.before.riders
       /\ db.events = lastRun.before.events
       /\ db.classes = lastRun.before.classes
       /\ {IdentityFields(e) : e \in db.entries}
             = {IdentityFields(e) : e \in lastRun.before.entries}

NamesUnique(rows) ==
    \A a, b \in rows : (a.farm_id = b.farm_id /\ a.name = b.name) => a = b

\* one row per natural key, a null class_number counting as a value
NaturalKeysUnique(store) ==
    /\ NamesUnique(store.horses)
    /\ NamesUnique(store.riders)
    /\ NamesUnique(store.events)
    /\ \A a, b \in store.classes :
          (a.farm_id = b.farm_id /\ a.name = b.name
              /\ a.class_number = b.class_number) => a = b
    /\ \A a, b \in store.shows :
          (a.farm_id = b.farm_id /\ a.api_show_id = b.api_show_id) => a = b

\* C3: a Flow 1 run leaves at most one Horse, Rider and Event row per
\* (farm, name), one Class row per (farm, name, class_number), a null
\* class_number included, and one Show row per (farm, api_show_id), in the
\* rows its transaction holds when the run ends.
C3_NaturalKeysUnique ==
    lastRun.flow = "flow1" => NaturalKeysUnique(lastRun.attempted)

\* the last two runs were Flow 2 cycles and the provider answered both with
\* the same live state
SameLiveTwice ==
    /\ prevRun.flow = "flow2" /\ lastRun.flow = "flow2"
    /\ prevRun.live = lastRun.live

\* C4: the second of two consecutive Flow 2 cycles with identical live state
\* emits no change event and no alert and appends no ledger row, also for a
\* class where some entry has no matching trip in the live data.
C4_SecondCycleSilent ==
    SameLiveTwice =>
        /\ Len(lastRun.changes) = 0
        /\ Len(lastRun.alerts) = 0
        /\ Len(lastRun.logged) = 0

\* rows the class monitoring has logged for the entry's HORSE_COMPLETED
HorseCompletedRows(log, entry_id) ==
    {i \in DOMAIN log :
        /\ log[i].source = "class_monitoring"
        /\ log[i].notification_type = "HORSE_COMPLETED"
        /\ log[i].entry_id = Some(entry_id)}

\* C5: a Flow 2 cycle that finds gone_in true in the live trip of an entry
\* whose persisted gone_in is already true emits no HORSE_COMPLETED for it and
\* does not call the availability step for it; and as long as the provider
\* has not taken gone_in back for an entry, HORSE_COMPLETED has been emitted
\* for it once if the provider has reported gone_in true, and never otherwise.
C5_CompletionOnce ==
    /\ lastRun.flow = "flow2" =>
          \A i \in DOMAIN lastRun.seen :
              (lastRun.seen[i].was /\ lastRun.seen[i].gone_in) =>
                  /\ HorseCompletedRows(lastRun.logged, lastRun.seen[i].entry_id) = {}
                  /\ lastRun.seen[i].entry_id \notin Range(lastRun.flow3)
    /\ \A id \in DOMAIN hist :
          ~hist[id].regressed =>
              Cardinality(HorseCompletedRows(db.notification_log, id))
                  = IF hist[id].seenTrue THEN 1 ELSE 0

\* two cycles in a row have found gone_in true for one entry
C5_Witness ==
    /\ prevRun.flow = "flow2" /\ lastRun.flow = "flow2"
    /\ \E i \in DOMAIN lastRun.seen :
          /\ lastRun.seen[i].was /\ lastRun.seen[i].gone_in
          /\ ~hist[lastRun.seen[i].entry_id].regressed
          /\ Cardinality(HorseCompletedRows(db.notification_log,
                                            lastRun.seen[i].entry_id)) = 1

\* ledger rows of one type a run has appended for an entry
LoggedFor(type, entry_id) ==
    {i \in DOMAIN lastRun.logged :
        /\ lastRun.logged[i].notification_type = type
        /\ lastRun.logged[i].entry_id = Some(entry_id)}

\* C6: every entry whose live trip has gone_in true while its persisted
\* gone_in is false gets one HORSE_COMPLETED event of class monitoring and,
\* from the availability calculation of the same run, one ledger row with
\* source horse_availability that references the entry.
C6_CompletionRunsAvailability ==
    lastRun.flow = "flow2" =>
        \A i \in DOMAIN lastRun.seen :
            (lastRun.seen[i].gone_in /\ ~lastRun.seen[i].was) =>
                /\ Cardinality(LoggedFor("HORSE_COMPLETED", lastRun.seen[i].entry_id)) = 1
                /\ Cardinality({j \in DOMAIN lastRun.logged :
                      /\ lastRun.logged[j].source = "horse_availability"
                      /\ lastRun.logged[j].entry_id = Some(lastRun.seen[i].entry_id)}) = 1

\* the classes of the last cycle whose live data was fetched
FetchedTasks ==
    IF lastRun.flow # "flow2" THEN {}
    ELSE {i \in DOMAIN lastRun.tasks : lastRun.live[lastRun.tasks[i].api_class_id] # None}

Fetched(i) == lastRun.live[lastRun.tasks[i].api_class_id][1]

FetchedCrd(i) ==
    IF Fetched(i).class_related_data = None THEN EmptyCrd
    ELSE Fetched(i).class_related_data[1]

\* the row the class-level comparison reads: the first entry of the class,
\* as it was persisted before the cycle
FirstBefore(i) == RowById(lastRun.before.entries, lastRun.tasks[i].entries[1])

FetchedStatus(i) ==
    IF FetchedCrd(i).status = None \/ strip(FetchedCrd(i).status[1]) = <<>> THEN None
    ELSE Some(strip(FetchedCrd(i).status[1]))

StatusEvents(i) == LoggedFor("STATUS_CHANGE", FirstBefore(i).id)

\* C7: a class whose fetched status is "Not Started" emits no STATUS_CHANGE
\* whatever its persisted status; any other fetched status that differs from
\* the persisted one emits exactly one STATUS_CHANGE with old = persisted and
\* new = fetched.
C7_StatusChange ==
    \A i \in FetchedTasks :
        /\ FetchedStatus(i) = Some(NotStarted) => StatusEvents(i) = {}
        /\ (FetchedStatus(i) # Some(NotStarted)
              /\ FetchedStatus(i) # FirstBefore(i).class_status) =>
                /\ Cardinality(StatusEvents(i)) = 1
                /\ \A j \in StatusEvents(i) :
                      /\ lastRun.logged[j].payload.old = FirstBefore(i).class_status
                      /\ lastRun.logged[j].payload.new = FetchedStatus(i)

\* a class persisted as "Underway", with its STATUS_CHANGE to "Underway" in
\* the ledger, is fetched as "Not Started" and the cycle emits nothing for it
C7_Witness ==
    \E i \in FetchedTasks :
        /\ FetchedStatus(i) = Some(NotStarted)
        /\ FirstBefore(i).class_status = Some(Underway)
        /\ StatusEvents(i) = {}
        /\ \E j \in DOMAIN lastRun.before.notification_log :
              /\ lastRun.before.notification_log[j].notification_type = "STATUS_CHANGE"
              /\ lastRun.before.notification_log[j].payload.new = Some(Underway)

\* the time-of-day part of a time text: the text after its last space, the
\* whole text when it has no date prefix; None for an absent or blank text
TimeOfDay(o) ==
    IF o = None \/ strip(o[1]) = <<>> THEN None
    ELSE Some(LastToken(strip(o[1])))

FetchedTime(i) == FetchedCrd(i).estimated_time

TimeEvents(i) == LoggedFor("TIME_CHANGE", FirstBefore(i).id)

\* C8: a cycle emits a TIME_CHANGE for a class exactly when the fetched
\* estimated time is present and its time-of-day part differs from that of the
\* persisted estimated_start; the event carries old = persisted and
\* new = fetched.  So persisted "2026-02-19 07:15:00" against fetched
\* "07:15:00" emits none, and persisted "07:15:00" against fetched "07:45:00"
\* emits one with old = "07:15:00", new = "07:45:00".
C8_TimeChange ==
    \A i \in FetchedTasks :
        IF TimeOfDay(FetchedTime(i)) # None
              /\ TimeOfDay(FetchedTime(i)) # TimeOfDay(FirstBefore(i).estimated_start)
        THEN /\ Cardinality(TimeEvents(i)) = 1
             /\ \A j \in TimeEvents(i) :
                   /\ lastRun.logged[j].payload.new = Some(strip(FetchedTime(i)[1]))
                   /\ FirstBefore(i).estimated_start # None =>
                         lastRun.logged[j].payload.old = FirstBefore(i).estimated_start
        ELSE TimeEvents(i) = {}

\* persisted "07:15:00" against fetched "07:45:00" has emitted its one event,
\* the only TIME_CHANGE of the ledger: the earlier comparison of the
\* persisted "2026-02-19 07:15:00" with the fetched "07:15:00" emitted none
C8_Witness ==
    \E i \in FetchedTasks :
        /\ FirstBefore(i).estimated_start = Lit("07:15:00")
        /\ FetchedTime(i) = Lit("07:45:00")
        /\ \E j \in TimeEvents(i) :
              /\ lastRun.logged[j].payload.old = Lit("07:15:00")
              /\ lastRun.logged[j].payload.new = Lit("07:45:00")
        /\ \A j \in DOMAIN lastRun.before.notification_log :
              lastRun.before.notification_log[j].notification_type # "TIME_CHANGE"
        /\ \E j \in DOMAIN lastRun.before.notification_log :
              lastRun.before.notification_log[j].entry_id = Some(FirstBefore(i).id)

\* the entries of the fetched classes, as <<task, position in the task>>
FetchedEntries ==
    UNION {{<<i, k>> : k \in DOMAIN lastRun.tasks[i].entries} : i \in FetchedTasks}

EntryBefore(p) == RowById(lastRun.before.entries, lastRun.tasks[p[1]].entries[p[2]])

FetchedTrip(p) == _trip_for_entry(Fetched(p[1]).trips, EntryBefore(p).api_entry_id)

\* the fetched placing of an entry; None when it has no trip or no placing
FetchedPlacing(p) ==
    IF FetchedTrip(p) = None THEN None ELSE _safe_int(FetchedTrip(p)[1].placing)

RealPlacing(o) == o # None /\ 0 < o[1] /\ o[1] < 100000

ResultEvents(p) == LoggedFor("RESULT", EntryBefore(p).id)

\* C9: a fetched placing that is 0, the unplaced sentinel 100000 or larger, or
\* absent never produces a RESULT event, even when it differs from the
\* persisted placing; an entry gets a RESULT event, and only one, exactly when
\* its fetched placing p has 0 < p < 100000 and differs from the persisted one.
C9_ResultOnlyForRealPlacing ==
    \A p \in FetchedEntries :
        /\ ~RealPlacing(FetchedPlacing(p)) => ResultEvents(p) = {}
        /\ Cardinality(ResultEvents(p)) =
              IF RealPlacing(FetchedPlacing(p))
                    /\ FetchedPlacing(p) # EntryBefore(p).placing
              THEN 1 ELSE 0

\* one cycle in which a trip carries the sentinel, which differs from the
\* persisted placing and produces nothing, beside a trip with a real placing
\* that has produced its RESULT
C9_Witness ==
    \E p, q \in FetchedEntries :
        /\ FetchedPlacing(p) = Some(UNPLACED_PLACING)
        /\ EntryBefore(p).placing # FetchedPlacing(p)
        /\ ResultEvents(p) = {}
        /\ RowById(db.entries, EntryBefore(p).id).placing = Some(UNPLACED_PLACING)
        /\ RealPlacing(FetchedPlacing(q))
        /\ Cardinality(ResultEvents(q)) = 1

\* positions of the changes of one type in the response of the last cycle
ChangesOf(type) ==
    {j \in DOMAIN lastRun.changes : lastRun.changes[j].type = type}

\* C10: when the persisted status of a class is "Underway" and the fetched one
\* "Completed", and the matching trip of an entry has a real placing and a
\* prize that differ from the persisted placing, the run emits exactly one
\* STATUS_CHANGE (old Underway, new Completed) for the class and exactly one
\* RESULT (that placing and prize) for the entry, both are appended to the
\* notification ledger, and afterwards the Entry row holds the fetched placing
\* and prize.
C10_CompletedWithResult ==
    \A p \in FetchedEntries :
        (/\ \A k \in DOMAIN lastRun.tasks[p[1]].entries :
                EntryBefore(<<p[1], k>>).class_status = Some(Underway)
         /\ FetchedStatus(p[1]) = Some(Completed)
         /\ RealPlacing(FetchedPlacing(p))
         /\ FetchedPlacing(p) # EntryBefore(p).placing
         /\ FetchedTrip(p)[1].total_prize_money # None)
        =>
        /\ Cardinality(StatusEvents(p[1])) = 1
        /\ \A j \in StatusEvents(p[1]) :
              /\ lastRun.logged[j].payload.old = Some(Underway)
              /\ lastRun.logged[j].payload.new = Some(Completed)
              /\ lastRun.logged[j].source = "class_monitoring"
        /\ Cardinality(ChangesOf("STATUS_CHANGE")) = 1
        /\ Cardinality(ResultEvents(p)) = 1
        /\ \A j \in ResultEvents(p) :
              /\ lastRun.logged[j].payload.placing = FetchedPlacing(p)
              /\ lastRun.logged[j].payload.prize_money = FetchedTrip(p)[1].total_prize_money
              /\ lastRun.logged[j].source = "class_monitoring"
              /\ \E c \in ChangesOf("RESULT") : lastRun.changes[c] = lastRun.logged[j].payload
        /\ \A j \in DOMAIN lastRun.logged :
              \E m \in DOMAIN db.notification_log : db.notification_log[m] = lastRun.logged[j]
        /\ RowById(db.entries, EntryBefore(p).id).placing = FetchedPlacing(p)
        /\ RowById(db.entries, EntryBefore(p).id).total_prize_money
              = Some(FetchedTrip(p)[1].total_prize_money[1].v)

\* the scenario itself: Underway, then Completed with placing 3 and prize 500
C10_Witness ==
    \E p \in FetchedEntries :
        /\ EntryBefore(p).class_status = Some(Underway)
        /\ EntryBefore(p).placing = None
        /\ FetchedStatus(p[1]) = Some(Completed)
        /\ FetchedPlacing(p) = Some(3)
        /\ FetchedTrip(p)[1].total_prize_money = Some(RawInt(500))
        /\ Cardinality(StatusEvents(p[1])) = 1
        /\ Cardinality(ResultEvents(p)) = 1
        /\ RowById(db.entries, EntryBefore(p).id).placing = Some(3)
        /\ RowById(db.entries, EntryBefore(p).id).total_prize_money = Some(500)

\* C11: a Flow 1 run in which a step fails propagates the error, and the
\* store afterwards equals the store before the run: no Farm, Show, Event,
\* Class, Horse, Rider or Entry row the run inserted or updated is visible.
C11_FailedRunLeavesNoTrace ==
    (lastRun.flow = "flow1" /\ ~lastRun.ok) =>
        /\ lastRun.err # NoErr
        /\ db = lastRun.before

\* a run failed after its transaction had written rows, and none is visible
C11_Witness ==
    /\ lastRun.flow = "flow1" /\ ~lastRun.ok
    /\ lastRun.attempted.shows # lastRun.before.shows
    /\ lastRun.attempted.horses # lastRun.before.horses
    /\ db = lastRun.before

\* the last Flow 1 run got as far as fetching the entry details: the schedule
\* and the entries list were answered and no class upsert preceded the fetch
ReachedDetails(ext) ==
    /\ ext.schedule # None
    /\ ext.schedule[1].show.show_id \notin {None, Some(0)}
    /\ \A i \in DOMAIN ext.schedule[1].rings : ext.schedule[1].rings[i].classes = <<>>
    /\ ext.entries_ok

\* the detail request of a listed entry failed
DetailFailed(ext) ==
    \E i \in DOMAIN ext.entries_list :
        /\ ext.entries_list[i].entry_id # None
        /\ ext.details[ext.entries_list[i].entry_id[1]] = None

\* C12: in Flow 1 the failure of a single entry-detail fetch aborts the run
\* like any other adapter error: the run ends with the adapter's error, does
\* not commit, returns no success summary and writes nothing built from the
\* details that did succeed.
C12_DetailFailureAborts ==
    (/\ lastRun.flow = "flow1"
     /\ ReachedDetails(lastRun.ext)
     /\ DetailFailed(lastRun.ext))
    => /\ ~lastRun.ok
       /\ lastRun.err = "WellingtonAPIError"
       /\ db = lastRun.before
       /\ lastRun.attempted.horses = lastRun.before.horses

\* the classes of the last cycle whose live fetch failed
FailedTasks ==
    IF lastRun.flow # "flow2" THEN {}
    ELSE {i \in DOMAIN lastRun.tasks : lastRun.live[lastRun.tasks[i].api_class_id] = None}

TaskEntryIds(i) == Range(lastRun.tasks[i].entries)

\* ledger rows the last cycle appended for the entries of one class
LoggedForTask(i) ==
    {j \in DOMAIN lastRun.logged :
        \E id \in TaskEntryIds(i) : lastRun.logged[j].entry_id = Some(id)}

\* C13: when the live fetch of one of several active classes fails while the
\* database is healthy, the run returns successfully; the failed class emits
\* no event and its Entry rows stay as they were, and every class whose fetch
\* succeeded is diffed: its status event is emitted, its entries carry the
\* fetched values and its ledger rows are committed.
C13_FetchFailureSkipsOneClass ==
    (lastRun.flow = "flow2" /\ lastRun.fault = 0 /\ FailedTasks # {}) =>
        /\ lastRun.ok
        /\ lastRun.summary.classes_checked = Len(lastRun.tasks)
        /\ \A i \in FailedTasks :
              /\ LoggedForTask(i) = {}
              /\ \A id \in TaskEntryIds(i) :
                    RowById(db.entries, id) = RowById(lastRun.before.entries, id)
        /\ \A p \in FetchedEntries :
              /\ FetchedStatus(p[1]) \notin {None, Some(NotStarted), FirstBefore(p[1]).class_status}
                    => Cardinality(StatusEvents(p[1])) = 1
              /\ FetchedTrip(p) # None =>
                    /\ RowById(db.entries, EntryBefore(p).id).class_status = FetchedStatus(p[1])
                    /\ RowById(db.entries, EntryBefore(p).id).gone_in
                          = (FetchedTrip(p)[1].gone_in = Some(RawInt(1)))
                    /\ RowById(db.entries, EntryBefore(p).id).placing = FetchedPlacing(p)
        /\ \A j \in DOMAIN lastRun.logged :
              \E m \in DOMAIN db.notification_log : db.notification_log[m] = lastRun.logged[j]

\* two active classes: the fetch of the one processed first failed, the
\* other was diffed, logged and updated
C13_Witness ==
    /\ lastRun.flow = "flow2" /\ lastRun.ok
    /\ Len(lastRun.tasks) = 2
    /\ 1 \in FailedTasks
    /\ 2 \in FetchedTasks
    /\ LoggedForTask(2) # {}
    /\ \E id \in TaskEntryIds(2) :
          /\ RowById(db.entries, id).class_status = Some(Underway)
          /\ RowById(lastRun.before.entries, id).class_status = None
    /\ \A id \in TaskEntryIds(1) :
          RowById(db.entries, id) = RowById(lastRun.before.entries, id)

\* C14: a Flow 2 run commits once, after all classes: when it fails while
\* a class is processed, no Entry update and no ledger row it had produced
\* for the classes before is persisted, the store is as before the run; when
\* it succeeds, everything it produced is persisted.
C14_SingleCommit ==
    lastRun.flow = "flow2" =>
        IF lastRun.ok
        THEN /\ db = lastRun.attempted
             /\ Len(db.notification_log)
                   = Len(lastRun.before.notification_log) + Len(lastRun.changes)
        ELSE /\ lastRun.err # NoErr
             /\ db = lastRun.before

\* the run failed in the second class after the first class had produced
\* Entry updates and ledger rows, and none of them is in the store
C14_Witness ==
    /\ lastRun.flow = "flow2" /\ ~lastRun.ok
    /\ Len(lastRun.tasks) = 2
    /\ \E id \in TaskEntryIds(1) :
          /\ RowById(lastRun.attempted.entries, id).class_status = Some(Underway)
          /\ RowById(lastRun.before.entries, id).class_status = None
          /\ RowById(db.entries, id).class_status = None
    /\ Len(lastRun.attempted.notification_log) > Len(lastRun.before.notification_log)
    /\ db.notification_log = lastRun.before.notification_log

\* the (horse name, external class id) pairs the source reports in a list of
\* entry details; an entry without classes is reported with no class
Reported(details) ==
    UNION {{<<strip(OrEmpty(ed.entry.horse)), cl.class_id>> : cl \in Range(ed.classes)}
           \cup (IF ed.classes = <<>> THEN {<<strip(OrEmpty(ed.entry.horse)), None>>}
                 ELSE {}) :
           ed \in Range(details)}

\* C15: after the entry steps of a Flow 1 run for a show and date, no Entry
\* row remains for that show and scheduled date whose (horse, external class
\* id) the source did not report in that run, also when the source reports
\* no entries at all.
C15_StaleEntriesPruned ==
    (lastRun.flow = "entries" /\ lastRun.ok) =>
        \A e \in db.entries :
            (e.show_id = Some(1) /\ e.scheduled_date = Some(Today)) =>
                <<RowById(db.horses, e.horse_id).name, e.api_class_id>>
                    \in Reported(lastRun.details)

\* every row of ledger a is in ledger b at the same place with the same fields
LedgerKept(a, b) ==
    /\ Len(a) <= Len(b)
    /\ \A i \in DOMAIN a : b[i] = a[i]

\* C16: notification-ledger rows are immutable: whatever run happens next, a
\* Flow 1 run or a Flow 2 cycle, every ledger row committed earlier still
\* exists with its farm, source, type, message, payload and entry reference
\* unchanged.
C16_LedgerImmutable ==
    [][LedgerKept(db.notification_log, db'.notification_log)]_vars

\* a cycle has added rows to a ledger that already had rows, which are kept
C16_Witness ==
    /\ lastRun.flow = "flow2"
    /\ lastRun.before.notification_log # <<>>
    /\ lastRun.logged # <<>>
    /\ LedgerKept(lastRun.before.notification_log, db.notification_log)

\* C17: for every successful Flow 2 run the changes returned, the alerts
\* returned and the class_monitoring rows the run appended to the ledger
\* correspond one to one, in the same order and with the same types, and the
\* summary counts total_changes and total_alerts equal the number of rows.
C17_ChangesAlertsLedgerAgree ==
    (lastRun.flow = "flow2" /\ lastRun.ok) =>
        /\ Len(lastRun.changes) = Len(lastRun.alerts)
        /\ Len(lastRun.changes) = Len(lastRun.logged)
        /\ lastRun.summary.total_changes = Len(lastRun.logged)
        /\ lastRun.summary.total_alerts = Len(lastRun.logged)
        /\ \A j \in DOMAIN lastRun.changes :
              /\ lastRun.alerts[j].type = lastRun.changes[j].type
              /\ lastRun.logged[j].notification_type = lastRun.changes[j].type
              /\ lastRun.logged[j].source = "class_monitoring"
              /\ lastRun.logged[j].payload = lastRun.changes[j]

\* a successful run over two classes that returned class-level and
\* entry-level events of both
C17_Witness ==
    /\ lastRun.flow = "flow2" /\ lastRun.ok
    /\ FetchedTasks = {1, 2}
    /\ Len(lastRun.logged) >= 6
    /\ \E j, k \in DOMAIN lastRun.changes :
          /\ lastRun.changes[j].type = "PROGRESS_UPDATE"
          /\ lastRun.changes[k].type = "HORSE_COMPLETED"
    /\ LoggedForTask(1) # {} /\ LoggedForTask(2) # {}

\* the rows before the re-sync that have a class and that the re-sync reports
MatchedWithClass ==
    {e \in lastRun.before.entries :
        /\ e.api_class_id # None
        /\ <<RowById(lastRun.before.horses, e.horse_id).name, e.api_class_id>>
              \in Reported(lastRun.details)}

\* C18: a Flow 1 re-sync that matches an existing Entry row with a class
\* leaves the row's live fields (status, class_status, gone_in, scratch_trip,
\* placing, prize, trip counts, order_of_go, actual_start) and every other
\* column as they were; only the rider linkage and estimated_start may change.
C18_ResyncKeepsLiveFields ==
    (lastRun.flow = "entries" /\ lastRun.ok) =>
        \A e \in MatchedWithClass :
            \E n \in db.entries :
                /\ n.id = e.id
                /\ [n EXCEPT !.rider_id = e.rider_id,
                             !.estimated_start = e.estimated_start] = e

\* a row class monitoring had marked gone in and placed third was matched by
\* a re-sync that gave it another rider and start time, and is still placed
C18_Witness ==
    /\ lastRun.flow = "entries" /\ lastRun.ok
    /\ \E e \in MatchedWithClass :
          /\ e.gone_in /\ e.placing = Some(3) /\ e.class_status = Some(Underway)
          /\ \E n \in db.entries :
                /\ n.id = e.id
                /\ n.rider_id # e.rider_id
                /\ n.estimated_start # e.estimated_start
                /\ n.gone_in /\ n.placing = Some(3) /\ n.status = e.status

\* the Show rows of a store for the external show id a schedule names
ShowsOf(store, schedule) ==
    {sh \in store.shows :
        /\ sh.farm_id \in {f.id : f \in store.farms}
        /\ sh.api_show_id = schedule[1].show.show_id}

ReportedShowName(schedule) ==
    IF strip(OrEmpty(schedule[1].show.show_name)) = <<>> THEN Str("Unknown Show")
    ELSE strip(OrEmpty(schedule[1].show.show_name))

\* C19: when Flow 1 syncs a show whose (farm, api_show_id) already has a Show
\* row, no new Show row is created and after the show step the existing row
\* carries the name the source now reports.
C19_ShowRefreshed ==
    (/\ lastRun.flow = "flow1"
     /\ lastRun.ext.schedule # None
     /\ lastRun.ext.schedule[1].show.show_id \notin {None, Some(0)}
     /\ ShowsOf(lastRun.before, lastRun.ext.schedule) # {})
    => /\ Cardinality(lastRun.attempted.shows) = Cardinality(lastRun.before.shows)
       /\ \A sh \in ShowsOf(lastRun.attempted, lastRun.ext.schedule) :
             sh.name = ReportedShowName(lastRun.ext.schedule)

\* C20: a Flow 1 run against an empty store that meets one show with one ring
\* and one class entered by two horses creates 1 Show, 1 Event, 1 Class,
\* 2 Horse, at most 2 Rider and 2 Entry rows, one Entry per (horse, class)
\* pair, and its summary reports total_synced_entries = 2.
C20_EmptyStoreSync ==
    (/\ lastRun.flow = "flow1"
     /\ lastRun.before = EmptyStore
     /\ lastRun.ext = TwoHorsesOneClass)
    => /\ lastRun.ok
       /\ Cardinality(db.shows) = 1
       /\ Cardinality(db.events) = 1
       /\ Cardinality(db.classes) = 1
       /\ Cardinality(db.horses) = 2
       /\ Cardinality(db.riders) <= 2
       /\ Cardinality(db.entries) = 2
       /\ Cardinality({<<e.horse_id, e.class_id>> : e \in db.entries}) = 2
       /\ lastRun.summary.total_synced_entries = 2

\* the other rows of the completed entry's horse, show and day that are not
\* gone in and not in a Completed class
Candidates ==
    {e \in lastRun.before.entries :
        /\ e.id # lastRun.entry.id
        /\ e.horse_id = lastRun.entry.horse_id
        /\ e.show_id = lastRun.entry.show_id
        /\ e.scheduled_date = lastRun.entry.scheduled_date
        /\ ~e.gone_in
        /\ e.class_status # Some(Completed)}

NewLedgerRows ==
    SubSeq(db.notification_log, Len(lastRun.before.notification_log) + 1,
           Len(db.notification_log))

\* C21: given a just-completed entry whose horse has no other Entry row of
\* the show and day that is not gone in and not in a Completed class, the
\* calculator says there are no more classes today, returns has_next = false
\* with free_hours and free_mins null, and appends exactly one ledger row of
\* source horse_availability referencing the completed entry.
C21_NoMoreClasses ==
    (lastRun.flow = "flow3" /\ lastRun.fault = "none" /\ Candidates = {})
    => /\ lastRun.ret # None
       /\ ~lastRun.ret[1].has_next
       /\ lastRun.ret[1].free_hours = None
       /\ lastRun.ret[1].free_mins = None
       /\ Len(NewLedgerRows) = 1
       /\ NewLedgerRows[1].source = "horse_availability"
       /\ NewLedgerRows[1].entry_id = Some(lastRun.entry.id)
       /\ NewLedgerRows[1].message.body = "No more classes scheduled today"
       /\ NewLedgerRows[1].payload = lastRun.ret[1]

\* the horse has other rows that day, all gone in, in a Completed class or on
\* another day, and the calculator has answered
C21_Witness ==
    /\ lastRun.flow = "flow3" /\ lastRun.fault = "none" /\ Candidates = {}
    /\ \E e \in lastRun.before.entries :
          e.id # lastRun.entry.id /\ e.horse_id = lastRun.entry.horse_id /\ e.gone_in
    /\ Len(NewLedgerRows) = 1

\* seconds since midnight of the time-of-day part of an estimated_start
StartClock(e) == ClockOf[TimeOfDay(e.estimated_start)[1][1]]

NextEntry == RowById(lastRun.before.entries, lastRun.remaining[1])

\* C22: the next commitment chosen is, among the horse's other rows of the
\* show and day that are not gone in and not in a Completed class, the one
\* with the earliest estimated start time of day, rows without an estimated
\* start last, whether the persisted texts are full "YYYY-MM-DD HH:MM:SS"
\* values, bare "HH:MM:SS" values or a mix of both.
C22_EarliestNext ==
    (lastRun.flow = "flow3" /\ lastRun.fault = "none" /\ Candidates # {})
    => /\ lastRun.ret # None
       /\ lastRun.ret[1].has_next
       /\ NextEntry \in Candidates
       /\ \A c \in Candidates :
             /\ NextEntry.estimated_start = None => c.estimated_start = None
             /\ (NextEntry.estimated_start # None /\ c.estimated_start # None)
                   => StartClock(NextEntry) <= StartClock(c)

\* the next start as a UTC instant less the instant of the call, in seconds
FreeSeconds ==
    _parse_estimated_start(NextEntry.estimated_start, NextEntry.scheduled_date)[1]
        - lastRun.now

NextParses ==
    /\ lastRun.flow = "flow3" /\ lastRun.fault = "none"
    /\ lastRun.remaining # <<>>
    /\ _parse_estimated_start(NextEntry.estimated_start, NextEntry.scheduled_date) # None

\* C23: when a next entry with a parsable estimated start exists the free
\* time is never negative: with d the next start less the current instant in
\* seconds, d <= 0 gives 0 hours 0 minutes, otherwise free_hours = d div 3600
\* and free_mins = (d div 60) mod 60, so 0 <= free_mins <= 59 and
\* free_hours * 60 + free_mins = d div 60.
C23_FreeTime ==
    NextParses =>
       /\ lastRun.ret # None
       /\ lastRun.ret[1].free_hours # None /\ lastRun.ret[1].free_mins # None
       /\ FreeSeconds <= 0 =>
             lastRun.ret[1].free_hours = Some(0) /\ lastRun.ret[1].free_mins = Some(0)
       /\ FreeSeconds > 0 =>
             /\ lastRun.ret[1].free_hours = Some(FreeSeconds \div 3600)
             /\ lastRun.ret[1].free_mins = Some((FreeSeconds \div 60) % 60)
       /\ lastRun.ret[1].free_hours[1] >= 0
       /\ lastRun.ret[1].free_mins[1] \in 0..59
       /\ FreeSeconds > 0 =>
             lastRun.ret[1].free_hours[1] * 60 + lastRun.ret[1].free_mins[1]
                = FreeSeconds \div 60

\* the call came after the start of the next entry
C23_Witness == NextParses /\ FreeSeconds < 0

\* the selected rows that also pass the horse and class name filters, in
\* the order of the query
FilteredOrder ==
    NameFiltered(db, lastRun.order, lastRun.horse_name, lastRun.class_name)

\* C25: get_recent_notifications returns the rows at positions offset ..
\* offset+limit-1 of the sequence of the farm's rows that satisfy every
\* supplied filter, newest first: when at least offset+limit rows match,
\* exactly limit rows are returned, also with a horse or class name filter.
C25_PageOfFiltered ==
    lastRun.flow = "query" =>
       /\ lastRun.rows = Page(FilteredOrder, lastRun.limit, lastRun.offset)
       /\ Len(FilteredOrder) >= lastRun.offset + lastRun.limit
             => Len(lastRun.rows) = lastRun.limit

\* the summaries already passed by the loop
PassedSummaries(run) ==
    SubSeq(run.entries_list, 1,
           IF run.i < Len(run.entries_list) THEN run.i ELSE Len(run.entries_list))

WaveState(run) ==
    /\ Cardinality(run.inflight) <= 10
    /\ \A p \in DOMAIN run.entries_list :
          /\ run.requested[p] <= 1
          /\ run.phase = "done" =>
                run.requested[p] = IF run.entries_list[p].entry_id = None THEN 0 ELSE 1
    /\ run.entry_details = fetch_entry_details(PassedSummaries(run), run.details)

\* C27: in the entry-detail stage never more than 10 detail fetches are in
\* flight, no fetch of a wave starts before every fetch of the wave before
\* has finished, every entry summary with an entry_id is requested exactly
\* once, and the collected details keep the order of the entry summaries.
C27_Waves ==
    [][lastRun'.flow = "details" =>
          /\ WaveState(lastRun')
          /\ lastRun'.inflight \ lastRun.inflight # {} => lastRun.inflight = {}]_vars

\* the second wave has been collected after a first wave of ten requests,
\* with a failed request in each
C27_Witness ==
    /\ lastRun.flow = "details" /\ lastRun.phase = "done"
    /\ lastRun.i > ENTRY_DETAIL_BATCH_SIZE
    /\ Len(lastRun.entry_details) = 10

\* the answer to the request for the class of an entry, and its payload
AnswerFor(e) == lastRun.live[e.api_class_id[1]]

FetchedFor(e) == AnswerFor(e)[1]

ChangedEntries == lastRun'.acc.session.entries \ lastRun.acc.session.entries

WrittenRows ==
    SubSeq(lastRun'.acc.session.notification_log,
           Len(lastRun.acc.session.notification_log) + 1,
           Len(lastRun'.acc.session.notification_log))

\* the step wrote to the session of the run
Mutates ==
    /\ lastRun.flow = "gather" /\ lastRun'.flow = "gather"
    /\ lastRun'.before = lastRun.before
    /\ lastRun'.acc.session # lastRun.acc.session

\* C26: in a Flow 2 run, whatever order the class fetches complete in, no
\* Entry mutation or ledger write happens before all fetches have finished,
\* each fetched class payload is applied only to the entries of the class it
\* was requested for, and the classes are processed one at a time in request
\* order.
C26_FetchThenSequential ==
    [][Mutates =>
          /\ lastRun.pending = {}
          /\ lastRun'.next = lastRun.next + 1
          /\ \A e \in ChangedEntries :
                /\ e.id \in Range(lastRun.tasks[lastRun.next].entries)
                /\ AnswerFor(e) # None
                /\ e.class_status = _safe_str(FetchedFor(e).class_related_data[1].status)
                /\ _trip_for_entry(FetchedFor(e).trips, e.api_entry_id) # None
          /\ \A j \in DOMAIN WrittenRows :
                /\ WrittenRows[j].entry_id[1]
                      \in Range(lastRun.tasks[lastRun.next].entries)
                /\ AnswerFor(RowById(lastRun.before.entries,
                                     WrittenRows[j].entry_id[1])) # None
                /\ WrittenRows[j].notification_type = "STATUS_CHANGE" =>
                      WrittenRows[j].payload.new =
                         _safe_str(FetchedFor(RowById(lastRun.before.entries,
                                                      WrittenRows[j].entry_id[1]))
                                      .class_related_data[1].status)]_vars

\* the second request finished first, both classes have been processed and
\* the run is committed with rows of both
C26_Witness ==
    /\ lastRun.flow = "gather" /\ lastRun.phase = "done"
    /\ lastRun.completed = <<2, 1>>
    /\ \A id \in {1, 2} : RowById(db.entries, id).class_status # None
    /\ RowById(db.entries, 1).class_status # RowById(db.entries, 2).class_status

\* the row of an entry of the last cycle as it is persisted after the cycle
EntryAfter(p) == RowById(db.entries, EntryBefore(p).id)

ClassFieldsPersisted(p) ==
    /\ EntryAfter(p).class_status = _safe_str(FetchedCrd(p[1]).status)
    /\ EntryAfter(p).estimated_start = _parse_time(FetchedCrd(p[1]).estimated_time)
    /\ EntryAfter(p).actual_start = _parse_time(FetchedCrd(p[1]).actual_time)
    /\ EntryAfter(p).total_trips = _safe_int(FetchedCrd(p[1]).total_trips)
    /\ EntryAfter(p).completed_trips = _safe_int(FetchedCrd(p[1]).completed_trips)
    /\ EntryAfter(p).remaining_trips = _safe_int(FetchedCrd(p[1]).remaining_trips)

TripFieldsPersisted(p) ==
    /\ EntryAfter(p).gone_in = EqualsOne(FetchedTrip(p)[1].gone_in)
    /\ EntryAfter(p).scratch_trip = EqualsOne(FetchedTrip(p)[1].scratch_trip)
    /\ EntryAfter(p).placing = _safe_int(FetchedTrip(p)[1].placing)
    /\ EntryAfter(p).total_prize_money = _safe_decimal(FetchedTrip(p)[1].total_prize_money)
    /\ EntryAfter(p).order_of_go = _safe_int(FetchedTrip(p)[1].order_of_go)

\* C28: after a Flow 2 cycle every entry of a successfully fetched class has
\* its persisted class-level fields (class_status, estimated_start,
\* actual_start, total, completed and remaining trips) equal to the fetched
\* class state, and its trip-level fields equal to the fetched trip matched
\* by api_entry_id, whether or not any event was emitted.
C28_LiveFieldsPersisted ==
    \A p \in FetchedEntries :
        /\ ClassFieldsPersisted(p)
        /\ FetchedTrip(p) # None => TripFieldsPersisted(p)

\* the part of C28 that the code keeps: the entries that have a matching trip
MatchedFieldsPersisted ==
    \A p \in FetchedEntries :
        FetchedTrip(p) # None => ClassFieldsPersisted(p) /\ TripFieldsPersisted(p)

\* C29: an entry that a Flow 2 cycle updates from its matched trip has the
\* derived status "scratched" when the trip's scratch flag is set, also when
\* gone_in is set too, otherwise "completed" when gone_in is set, otherwise
\* "active"; it never has the status "inactive".
C29_DerivedStatus ==
    \A p \in FetchedEntries :
        FetchedTrip(p) # None =>
            /\ EqualsOne(FetchedTrip(p)[1].scratch_trip) =>
                  EntryAfter(p).status = "scratched"
            /\ (~EqualsOne(FetchedTrip(p)[1].scratch_trip)
                   /\ EqualsOne(FetchedTrip(p)[1].gone_in)) =>
                  EntryAfter(p).status = "completed"
            /\ (~EqualsOne(FetchedTrip(p)[1].scratch_trip)
                   /\ ~EqualsOne(FetchedTrip(p)[1].gone_in)) =>
                  EntryAfter(p).status = "active"
            /\ EntryAfter(p).status # "inactive"

C29_Witness ==
    \E p, q \in FetchedEntries :
        /\ FetchedTrip(p) # None
        /\ EqualsOne(FetchedTrip(p)[1].scratch_trip)
        /\ EqualsOne(FetchedTrip(p)[1].gone_in)
        /\ EntryAfter(p).status = "scratched"
        /\ FetchedTrip(q) # None
        /\ ~EqualsOne(FetchedTrip(q)[1].scratch_trip)
        /\ EqualsOne(FetchedTrip(q)[1].gone_in)
        /\ EntryAfter(q).status = "completed"

\* an entry Flow 2 is done with: its class is persisted as "Completed", or it
\* has no class reference
Terminal(e) == e.class_status = Some(Completed) \/ e.api_class_id = None

TaskOfClass(i, e) ==
    /\ e.api_class_id = Some(lastRun.tasks[i].api_class_id)
    /\ e.show_id = Some(lastRun.tasks[i].show_id)

\* C30: an entry whose persisted class_status is "Completed", and an entry
\* with no class reference, is not loaded by a later Flow 2 cycle, causes no
\* class fetch, produces no event and is not modified by it; a class whose
\* entries are all persisted as Completed is not fetched again.
C30_CompletedTerminal ==
    lastRun.flow = "flow2" =>
        /\ \A e \in lastRun.before.entries :
              Terminal(e) =>
                 /\ \A i \in DOMAIN lastRun.tasks :
                       e.id \notin Range(lastRun.tasks[i].entries)
                 /\ \A j \in DOMAIN lastRun.logged :
                       lastRun.logged[j].entry_id # Some(e.id)
                 /\ e \in db.entries
        /\ \A i \in DOMAIN lastRun.tasks :
              \E e \in lastRun.before.entries : TaskOfClass(i, e) /\ ~Terminal(e)

C30_Witness ==
    /\ lastRun.flow = "flow2"
    /\ prevRun.flow = "flow2"
    /\ lastRun.live # FetchFailed
    /\ \E e \in lastRun.before.entries :
          e.class_status = Some(Completed) /\ e.gone_in /\ e \in db.entries
    /\ \E e \in lastRun.before.entries : e.api_class_id = None /\ e \in db.entries
    /\ lastRun.tasks = <<>>
    /\ lastRun.logged = <<>>

ScratchedEvents(p) == LoggedFor("SCRATCHED", EntryBefore(p).id)

FetchedScratch(p) ==
    FetchedTrip(p) # None /\ EqualsOne(FetchedTrip(p)[1].scratch_trip)

\* the cycle before the last one fetched the entry's class and found the
\* scratch flag set in the entry's trip
ScratchSeenBefore(p) ==
    /\ prevRun.flow = "flow2"
    /\ prevRun.live[lastRun.tasks[p[1]].api_class_id] # None
    /\ \E r \in {_trip_for_entry(prevRun.live[lastRun.tasks[p[1]].api_class_id][1].trips,
                                 EntryBefore(p).api_entry_id)} :
          r # None /\ EqualsOne(r[1].scratch_trip)

\* C31: a trip whose scratch flag is set while the entry's persisted
\* scratch_trip is false emits exactly one SCRATCHED event for the entry in
\* that cycle and persists the flag; a cycle that observes the flag again,
\* the persisted scratch_trip being true or the previous cycle having seen
\* the flag, emits no SCRATCHED event for the entry.
C31_ScratchedOnce ==
    \A p \in FetchedEntries :
        FetchedScratch(p) =>
            /\ ~EntryBefore(p).scratch_trip => Cardinality(ScratchedEvents(p)) = 1
            /\ EntryBefore(p).scratch_trip => ScratchedEvents(p) = {}
            /\ ScratchSeenBefore(p) => ScratchedEvents(p) = {}
            /\ EntryAfter(p).scratch_trip

C31_Witness ==
    \E p \in FetchedEntries :
        /\ FetchedScratch(p)
        /\ ScratchSeenBefore(p)
        /\ ScratchedEvents(p) = {}
        /\ Cardinality({j \in DOMAIN db.notification_log :
              /\ db.notification_log[j].notification_type = "SCRATCHED"
              /\ db.notification_log[j].entry_id = Some(EntryBefore(p).id)}) = 1

\* the valid classes the schedule of the last sync reports
ReportedClassKeys ==
    IF lastRun.flow # "flow1" \/ lastRun.ext.schedule = None THEN <<>>
    ELSE ClassKeys(Concat([i \in DOMAIN lastRun.ext.schedule[1].rings |->
                              lastRun.ext.schedule[1].rings[i].classes]), {})

\* pairs of external class ids reported with the same name and class number
Twins ==
    {t \in {<<a.cid, b.cid>> : a, b \in Range(ReportedClassKeys)} :
        \E a, b \in Range(ReportedClassKeys) :
            /\ t = <<a.cid, b.cid>> /\ a.cid # b.cid
            /\ a.name = b.name /\ a.class_number = b.class_number
            /\ a.class_number # None}

ClassRowsNamed(cid) ==
    {c \in db.classes :
        \E k \in Range(ReportedClassKeys) :
            k.cid = cid /\ c.name = k.name /\ c.class_number = k.class_number}

\* C32: a Flow 1 sync in which two classes with different external ids share
\* (name, class_number) completes successfully, leaves exactly one Class row
\* for that (farm, name, class_number), and the Entry rows built for both
\* external ids reference that row.
C32_TwinClassesOneRow ==
    \A t \in Twins :
        /\ lastRun.ok
        /\ Cardinality(ClassRowsNamed(t[1])) = 1
        /\ \A e \in db.entries :
              e.api_class_id \in {Some(t[1]), Some(t[2])} =>
                  e.class_id \in {Some(c.id) : c \in ClassRowsNamed(t[1])}

\* the entry details the last sync fetched
SyncedDetails ==
    IF lastRun.flow = "entries" THEN lastRun.details
    ELSE IF lastRun.flow # "flow1" \/ lastRun.ext.schedule = None
            \/ lastRun.ext.schedule[1].show.show_id \in {None, Some(0)}
            \/ ~lastRun.ext.entries_ok
    THEN <<>>
    ELSE fetch_entry_details(lastRun.ext.entries_list, lastRun.ext.details)

\* horses named in a fetched detail that lists no class
ClasslessHorses ==
    {strip(OrEmpty(ed.entry.horse)) :
        ed \in {d \in Range(SyncedDetails) : d.classes = <<>>}} \ {<<>>}

HorseNamed(store, name) == {h \in store.horses : h.name = name}

\* the Entry rows without a class reference of the horses of that name
PlaceholderRows(store, name) ==
    {e \in store.entries :
        /\ e.api_class_id = None
        /\ \E h \in HorseNamed(store, name) : e.horse_id = h.id}

IsPlaceholder(e) ==
    /\ e.api_class_id = None
    /\ e.class_id = None
    /\ e.status = "inactive"
    /\ e.scheduled_date = Some(Today)

\* C33: for every fetched entry detail whose class list is empty the run
\* leaves exactly one Entry row of that horse and show without a class
\* reference, with status "inactive" and scheduled_date the sync date; a
\* re-sync updates that row instead of adding one, and the upsert leaves the
\* horse's with-class Entry rows as they were.
C33_PlaceholderEntry ==
    \A name \in ClasslessHorses :
        /\ Cardinality(PlaceholderRows(db, name)) = 1
        /\ \A e \in PlaceholderRows(db, name) : IsPlaceholder(e)
        /\ \A e \in lastRun.before.entries :
              (e.api_class_id # None /\ \E h \in HorseNamed(db, name) : e.horse_id = h.id)
                 => e \in db.entries

\* a state of the entry steps taken on their own: a second pass over a horse
\* that has a placeholder and a with-class row
PlaceholderResynced ==
    /\ lastRun.flow = "entries"
    /\ \E name \in ClasslessHorses :
          /\ Cardinality(PlaceholderRows(lastRun.before, name)) = 1
          /\ Cardinality(PlaceholderRows(db, name)) = 1
          /\ \E e \in db.entries :
                e.api_class_id # None /\ \E h \in HorseNamed(db, name) : e.horse_id = h.id

\* the (detail, class) pairs of the last pass of the entry steps
DetailClasses ==
    IF lastRun.flow # "entries" THEN {}
    ELSE {<<i, k>> : i \in DOMAIN lastRun.details, k \in {1}} \cap
         {<<i, k>> \in (DOMAIN lastRun.details) \X {1} :
             k \in DOMAIN lastRun.details[i].classes}

DetailHorse(q) == strip(OrEmpty(lastRun.details[q[1]].entry.horse))

\* the Entry rows stored for the class of a (detail, class) pair
RowsOfDetailClass(q) ==
    {e \in db.entries : e.api_class_id = lastRun.details[q[1]].classes[q[2]].class_id}

ResolvedHorseIds ==
    {h.id : h \in {x \in db.horses : x.name \in CollectHorseNames(lastRun.details)}}

\* C34: step 9 of Flow 1 upserts only rows with a horse: a row whose horse
\* name resolves is stored under the Horse of exactly that name; a row whose
\* horse name does not resolve is stored under some horse that resolved in
\* the batch when there is one, and is dropped and not counted when there is
\* none.
C34_HorseResolved ==
    (lastRun.flow = "entries" /\ lastRun.ok) =>
        /\ \A e \in db.entries : \E h \in db.horses : e.horse_id = h.id
        /\ \A q \in DetailClasses :
              /\ DetailHorse(q) # <<>> =>
                    \E e \in RowsOfDetailClass(q) :
                        \E h \in db.horses : h.name = DetailHorse(q) /\ e.horse_id = h.id
              /\ (DetailHorse(q) = <<>> /\ ResolvedHorseIds # {}) =>
                    \E e \in RowsOfDetailClass(q) : e.horse_id \in ResolvedHorseIds
        /\ ResolvedHorseIds = {} =>
              /\ db.entries = lastRun.before.entries
              /\ lastRun.total = 0
        /\ ResolvedHorseIds # {} =>
              lastRun.total = Cardinality(DetailClasses)
                  + Cardinality({i \in DOMAIN lastRun.details :
                        lastRun.details[i].classes = <<>>
                        /\ strip(OrEmpty(lastRun.details[i].entry.horse)) # <<>>})

C34_Witness ==
    /\ lastRun.flow = "entries" /\ lastRun.ok
    /\ \E q \in DetailClasses :
          /\ DetailHorse(q) = <<>>
          /\ Cardinality(ResolvedHorseIds) = 2
          /\ \E e \in RowsOfDetailClass(q) :
                e.api_entry_id = Some(13) /\ e.horse_id \in ResolvedHorseIds
          /\ lastRun.total = 3

ConfiguredFarms ==
    {f \in db.farms :
        f.name = ConfiguredFarm.name /\ f.customer_id = ConfiguredFarm.customer_id}

BothFinished ==
    /\ lastRun.flow = "farm"
    /\ \A p \in Runs : lastRun.pc[p] = "done"

\* C35: two runs that both ensure the farm, started against a store without
\* the configured farm and interleaved in any way, leave exactly one Farm row
\* for the configured (name, customer id) once both have finished and one of
\* them has committed, and every Show, Horse and Entry written is scoped to
\* that farm.
C35_OneFarm ==
    (BothFinished /\ \E p \in Runs : lastRun.ok[p]) =>
        /\ Cardinality(ConfiguredFarms) = 1
        /\ \A f \in ConfiguredFarms :
              /\ \A s \in db.shows : s.farm_id = f.id
              /\ \A h \in db.horses : h.farm_id = f.id
              /\ \A e \in db.entries :
                    e.show_id # None /\ \E s \in db.shows : s.id = e.show_id[1]

\* C36: when a Flow 1 re-sync of the same entries runs between two Flow 2
\* cycles that meet the same live state, the cycle after the re-sync emits no
\* event; in particular no TIME_CHANGE for a live time the cycle before the
\* re-sync has already recorded.
C36_ResyncKeepsCyclesSilent ==
    (lastRun.flow = "between" /\ lastRun.step = 3) => lastRun.changes = <<>>

\* without the re-sync writing anything the second cycle is silent
SilentWithoutResync ==
    (lastRun.flow = "between" /\ lastRun.step = 2) =>
        \A order \in Perms(ActiveEntryIds(lastRun.before, 1, Today)) :
            run_class_monitoring(lastRun.before, lastRun.live, order).changes = <<>>

\* the cycle before the re-sync and the cycle after it both emit TIME_CHANGE
\* for the same live time
TimeChangeRepeated ==
    /\ lastRun.flow = "between"
    /\ IF lastRun.flow = "between"
       THEN /\ lastRun.step = 3
            /\ lastRun.resynced
            /\ \E i \in DOMAIN lastRun.first : lastRun.first[i].type = "TIME_CHANGE"
            /\ \E i \in DOMAIN lastRun.changes : lastRun.changes[i].type = "TIME_CHANGE"
       ELSE FALSE

ClassLevelFields(e) ==
    <<e.class_status, e.estimated_start, e.actual_start,
      e.total_trips, e.completed_trips, e.remaining_trips>>

\* C37: after a Flow 2 cycle that fetched a class, all Entry rows of that
\* class and show hold the same class-level fields (class_status,
\* estimated_start, actual_start, total_trips, completed_trips,
\* remaining_trips), also the entries the live data holds no trip for.
C37_SiblingsAgree ==
    lastRun.flow = "flow2" =>
        \A p \in FetchedEntries, q \in FetchedEntries :
            p[1] = q[1] => ClassLevelFields(EntryAfter(p)) = ClassLevelFields(EntryAfter(q))

\* the siblings that have a trip in the live data do agree
MatchedSiblingsAgree ==
    lastRun.flow = "flow2" =>
        \A p \in FetchedEntries, q \in FetchedEntries :
            (p[1] = q[1] /\ FetchedTrip(p) # None /\ FetchedTrip(q) # None)
                => ClassLevelFields(EntryAfter(p)) = ClassLevelFields(EntryAfter(q))

NoTimeReported(i) == _parse_time(FetchedCrd(i).estimated_time) = None

\* C38: a Flow 2 cycle in which the provider reports no estimated time for a
\* class emits no TIME_CHANGE for it and leaves the persisted estimated_start
\* of the class's entries as it was.
C38_NoTimeKeepsStart ==
    lastRun.flow = "flow2" =>
        \A p \in FetchedEntries :
            NoTimeReported(p[1]) =>
                /\ TimeEvents(p[1]) = {}
                /\ EntryAfter(p).estimated_start = EntryBefore(p).estimated_start

\* the part of C38 the code keeps: no TIME_CHANGE without a reported time
NoTimeNoEvent ==
    lastRun.flow = "flow2" =>
        \A i \in FetchedTasks : NoTimeReported(i) => TimeEvents(i) = {}

\* a cycle without a reported time has erased a persisted start time
StartErased ==
    /\ lastRun.flow = "flow2"
    /\ \E p \in FetchedEntries :
          /\ NoTimeReported(p[1])
          /\ EntryBefore(p).estimated_start # None
          /\ EntryAfter(p).estimated_start = None

\* a cycle without a reported time, then a cycle that reports the start time
\* persisted before both and emits TIME_CHANGE for it
TimeChangeAfterGap ==
    /\ lastRun.flow = "flow2"
    /\ prevRun.flow = "flow2"
    /\ \E i \in FetchedTasks :
          /\ prevRun.live[lastRun.tasks[i].api_class_id] # None
          /\ \E r \in {prevRun.live[lastRun.tasks[i].api_class_id][1].class_related_data} :
                r # None /\ _parse_time(r[1].estimated_time) = None
          /\ FetchedTime(i) = Some(<<Today, SP, "07:15:00">>)
          /\ FirstBefore(i).estimated_start = None
          /\ TimeEvents(i) # {}

\* the classes of the last ring sync's entry details, as <<detail, class>>
RingClasses ==
    IF lastRun.flow # "rings" THEN {}
    ELSE UNION {{<<i, k>> : k \in DOMAIN lastRun.details[i].classes} :
                    i \in DOMAIN lastRun.details}

RingClass(q) == lastRun.details[q[1]].classes[q[2]]

\* the names the last schedule reports for ring number n
ReportedRingNames(n) ==
    {OrEmpty(lastRun.rings_data[i].ring_name) :
        i \in {j \in DOMAIN lastRun.rings_data : lastRun.rings_data[j].ring_number = Some(n)}}

\* the Entry rows written for a class of an entry detail that were not in the
\* store before
RowsBuiltFor(q) ==
    {e \in db.entries \ lastRun.before.entries :
        /\ e.api_entry_id = lastRun.details[q[1]].entry.entry_id
        /\ e.api_class_id = RingClass(q).class_id}

\* C39: after a Flow 1 run, every Entry row built for a class held in ring
\* number n references the Event row whose name is the ring name the current
\* schedule reports for ring number n, whatever names and ring numbers
\* earlier syncs have stored.
C39_EntryReferencesReportedRing ==
    \A q \in RingClasses :
        \A name \in ReportedRingNames(RingClass(q).ring[1]) :
            /\ RingClass(q).ring[1] \in DOMAIN lastRun.ring_number_to_event_id
            /\ \E ev \in db.events :
                  /\ ev.name = name
                  /\ ev.id = lastRun.ring_number_to_event_id[RingClass(q).ring[1]]
            /\ \A e \in RowsBuiltFor(q) :
                  \E ev \in db.events : ev.name = name /\ e.event_id = Some(ev.id)

\* the store held no Event row under another name or number
NoStaleRing ==
    \A ev \in lastRun.before.events :
        \E i \in DOMAIN lastRun.rings_data :
            /\ ev.name = OrEmpty(lastRun.rings_data[i].ring_name)
            /\ ev.ring_number = lastRun.rings_data[i].ring_number

\* the part of C39 the code keeps: without stale Event rows the map leads to
\* the reported ring
FreshRingsReferenced ==
    (lastRun.flow = "rings" /\ NoStaleRing) => C39_EntryReferencesReportedRing

\* a new Entry row of ring 2 has been written with the Event of the reported
\* ring
RingRowWritten ==
    /\ lastRun.flow = "rings"
    /\ \E q \in RingClasses :
          /\ RingClass(q).ring = Some(2)
          /\ RowsBuiltFor(q) # {}
          /\ \A e \in RowsBuiltFor(q) :
                \E ev \in db.events : ev.name = Str("Side Ring") /\ e.event_id = Some(ev.id)

====
